---- MODULE Spec2Model ----
(***************************************************************************)
(* terraform-provider-apko, internal/provider: the multi-architecture      *)
(* package-lock unification (unify), the config data source that calls it  *)
(* (ConfigDataSource.Read, resolvePackageList) and retry.                   *)
(*                                                                         *)
(* Strings are sequences of one-character strings, so that splitting a     *)
(* specifier, rendering an entry and sorting are computed, not assumed.    *)
(* A Go map of sets is a record that tells the nil map from an empty one;  *)
(* a sets.Set is a set.                                                    *)
(***************************************************************************)
EXTENDS Integers, Sequences, FiniteSets, TLC

VARIABLES
    pc,                 \* position in unify: "call", "fold", "done", "panic"
    originals,          \* argument: the declared specifiers
    inputs,             \* argument: the resolutions, as the caller sees them now
    given,              \* the value of inputs when unify was called
    originalPackages,   \* local: names and constraints of the declared specifiers
    acc,                \* local: the accumulator
    idx,                \* local: position in inputs of the next resolution to fold
    missing,            \* local: declared names left unlocked after the rescue
    pl,                 \* result: the merged package list
    diagnostics,        \* result: the diagnostics
    stage,              \* position in ConfigDataSource.Read
    data,               \* Read: the ConfigDataSourceModel of the request
    popts,              \* Read: the provider options
    ic,                 \* Read: the ImageConfiguration being prepared
    resp,               \* Read: the response, its diagnostics and the state written
    rpos,               \* position in retry and in the backoff loop it runs
    backoff,            \* retry: its argument, a wait.Backoff
    stepping,           \* retry: the copy of backoff that the backoff loop steps
    ctxDone,            \* retry: whether the context has ended
    errs,               \* retry: the errors collected
    inflight,           \* retry: the calls of f in progress
    outcomes,           \* retry: what the calls of f returned, in order
    ret,                \* retry: the error returned
    rstage,             \* position in resolvePackageList
    world,              \* resolvePackageList: what the calls of each task will return
    spawned,            \* resolvePackageList: the tasks started by eg.Go so far
    tasks,              \* resolvePackageList: the position of each task
    resolvedArchs,      \* resolvePackageList: the slice archs
    egErr,              \* resolvePackageList: the first error the errgroup was given
    ipos,               \* position in fromImageData
    iarg,               \* fromImageData: ic and popts, as the caller sees them
    iret,               \* fromImageData: the image configuration returned
    bstate,             \* build resource: the state terraform holds
    written,            \* build resource: the states written, with the operation
    bdiags              \* build resource: the diagnostics of the last operation

unifyVars == <<pc, originals, inputs, given, originalPackages, acc, idx, missing, pl, diagnostics>>

readVars == <<stage, data, popts, ic, resp>>

retryVars == <<rpos, backoff, stepping, ctxDone, errs, inflight, outcomes, ret>>

resolveVars == <<rstage, world, spawned, tasks, resolvedArchs, egErr>>

imageVars == <<ipos, iarg, iret>>

buildVars == <<bstate, written, bdiags>>

vars == <<unifyVars, readVars, retryVars, resolveVars, imageVars, buildVars>>

----------------------------------------------------------------------------
(* Bounds of the model *)

MaxOriginals == 2       \* longest declared list
MaxArchs == 2           \* most architectures in one call
MaxSteps == 3           \* most steps of a backoff given to retry

----------------------------------------------------------------------------
(* Strings *)

\* The characters in use, in byte order (Go compares strings bytewise).
Ascii == <<" ", "\"", "(", ")", ",", "0", "1", "2", "3", "4", "6", "8", "9",
           "<", "=", ">", "@", "[", "]", "_", "a", "b", "c", "d", "h", "m", "r", "s", "x", "~">>

Rank(ch) == CHOOSE i \in 1..Len(Ascii) : Ascii[i] = ch

RECURSIVE Less(_, _)
Less(s, t) ==
    IF s = <<>> THEN t # <<>>
    ELSE IF t = <<>> THEN FALSE
    ELSE IF Head(s) = Head(t) THEN Less(Tail(s), Tail(t))
    ELSE Rank(Head(s)) < Rank(Head(t))

\* sets.List / sort.Strings: the strings of S in ascending order.
RECURSIVE SortedList(_)
SortedList(S) ==
    IF S = {} THEN <<>>
    ELSE LET m == CHOOSE x \in S : \A y \in S \ {x} : Less(x, y)
         IN  <<m>> \o SortedList(S \ {m})

\* strings.Join
RECURSIVE Join(_, _)
Join(ss, sep) ==
    IF Len(ss) = 0 THEN <<>>
    ELSE IF Len(ss) = 1 THEN ss[1]
    ELSE ss[1] \o sep \o Join(Tail(ss), sep)

\* strings.IndexAny(s, "=<>~"), counted from 1; 0 when there is none.
Delimiters == {"=", "<", ">", "~"}

IndexAny(s) ==
    IF \E i \in 1..Len(s) : s[i] \in Delimiters
    THEN CHOOSE i \in 1..Len(s) : s[i] \in Delimiters /\ \A j \in 1..(i - 1) : s[j] \notin Delimiters
    ELSE 0

\* strings.TrimPrefix
TrimPrefix(s, prefix) ==
    IF Len(prefix) <= Len(s) /\ SubSeq(s, 1, Len(prefix)) = prefix
    THEN SubSeq(s, Len(prefix) + 1, Len(s))
    ELSE s

----------------------------------------------------------------------------
(* Go maps and sets *)

\* A map[string]sets.Set[string] is a record: isNil tells the nil map from an
\* empty one, kv holds the entries.  The sets stored are never nil: the inputs
\* hold sets built by sets.New, and unify stores only results of Intersection.
NilMap == [isNil |-> TRUE, kv |-> <<>>]

MakeMap(f) == [isNil |-> FALSE, kv |-> f]

\* m[k] for a map of strings: the empty string when the key is absent.
VersionOf(m, k) == IF k \in DOMAIN m THEN m[k] ELSE <<>>

\* m[k] for a map of sets: the nil (empty) set when the map is nil or the key absent.
ProvidedOf(m, k) == IF k \in DOMAIN m.kv THEN m.kv[k] ELSE {}

\* delete(m, k) on a map of strings.
VersionsDelete(m, k) == [x \in (DOMAIN m) \ {k} |-> m[x]]

\* delete(m, k) on a map of sets; a no-op on the nil map.
MapDelete(m, k) == [m EXCEPT !.kv = [x \in (DOMAIN m.kv) \ {k} |-> m.kv[x]]]

\* m[k] = v on a non-nil map of sets.
MapPut(m, k, v) == [m EXCEPT !.kv = [x \in (DOMAIN m.kv) \cup {k} |-> IF x = k THEN v ELSE m.kv[x]]]

\* reflect.DeepEqual on two maps of sets: a nil map equals only a nil map.
DeepEqual(m1, m2) == m1.isNil = m2.isNil /\ m1.kv = m2.kv

----------------------------------------------------------------------------
(* unify: the declared specifiers *)

\* The name of a specifier: the text before the first of = < > ~.
\* SplitName, had it looked for "=" only.
SplitNameAtEquals(orig) ==
    IF \E i \in 1..Len(orig) : orig[i] = "="
    THEN SubSeq(orig, 1, (CHOOSE i \in 1..Len(orig) : orig[i] = "=" /\ \A j \in 1..(i - 1) : orig[j] # "=") - 1)
    ELSE orig

SplitName(orig) ==
    LET i == IndexAny(orig)
    IN  IF i > 0 THEN SubSeq(orig, 1, i - 1) ELSE orig

\* The loop over originals: a later specifier of the same name overwrites the
\* constraint of an earlier one.
RECURSIVE ParseOriginals(_)
ParseOriginals(origs) ==
    IF Len(origs) = 0 THEN [packages |-> {}, versions |-> <<>>]
    ELSE LET before == ParseOriginals(SubSeq(origs, 1, Len(origs) - 1))
             orig == origs[Len(origs)]
             name == SplitName(orig)
         IN  [packages |-> before.packages \cup {name},
              versions |-> [x \in (DOMAIN before.versions) \cup {name} |->
                               IF x = name THEN TrimPrefix(orig, name) ELSE before.versions[x]]]

----------------------------------------------------------------------------
(* unify: folding the architectures *)

\* The accumulator starts as the first resolution.  packages and versions are
\* copies; provided is the first resolution's own map, not a copy.
Seed(ins) == [packages |-> ins[1].packages, versions |-> ins[1].versions, provided |-> ins[1].provided]

\* Agrees, had it compared the provided maps only.
AgreesOnProvided(a, next) == DeepEqual(a.provided, next.provided)

\* The fast path: versions and provided maps deeply equal.
Agrees(a, next) == a.versions = next.versions /\ DeepEqual(a.provided, next.provided)

\* acc.packages.Delete(acc.packages.Difference(next.packages)...)
DropAbsent(a, next) == [a EXCEPT !.packages = a.packages \cap next.packages]

\* NarrowPkg, had it left the provided set of the package as it was.
NarrowPkgKeeping(r, next, pkg) ==
    LET a0 == r.acc
    IN  IF VersionOf(a0.versions, pkg) # VersionOf(next.versions, pkg)
        THEN [acc |-> [packages |-> a0.packages \ {pkg},
                       versions |-> VersionsDelete(a0.versions, pkg),
                       provided |-> MapDelete(a0.provided, pkg)],
              panicked |-> FALSE]
        ELSE r

\* One round of the loop over acc.packages.  r is [acc, panicked]; storing into
\* the nil map panics.
NarrowPkg(r, next, pkg) ==
    LET a == r.acc
        a1 == IF VersionOf(a.versions, pkg) # VersionOf(next.versions, pkg)
              THEN [packages |-> a.packages \ {pkg},
                    versions |-> VersionsDelete(a.versions, pkg),
                    provided |-> MapDelete(a.provided, pkg)]
              ELSE a
    IN  IF ProvidedOf(a1.provided, pkg) # ProvidedOf(next.provided, pkg)
        THEN IF a1.provided.isNil
             THEN [acc |-> a1, panicked |-> TRUE]
             ELSE [acc |-> [a1 EXCEPT !.provided =
                               MapPut(a1.provided, pkg,
                                      ProvidedOf(a1.provided, pkg) \cap ProvidedOf(next.provided, pkg))],
                   panicked |-> FALSE]
        ELSE [acc |-> a1, panicked |-> FALSE]

\* The loop over the list of acc.packages taken before the loop.  The rounds touch
\* disjoint entries, so the order of the list does not show in the result.
RECURSIVE NarrowLoop(_, _, _)
NarrowLoop(r, next, pkgs) ==
    IF Len(pkgs) = 0 \/ r.panicked THEN r
    ELSE NarrowLoop(NarrowPkg(r, next, Head(pkgs)), next, Tail(pkgs))

\* Narrow, had it also dropped a package whose provided sets differ.
NarrowDroppingOnProvides(a, next) ==
    LET a0 == DropAbsent(a, next)
        r == NarrowLoop([acc |-> a0, panicked |-> FALSE], next, SortedList(a0.packages))
    IN  [r EXCEPT !.acc.packages =
            {pkg \in @ : ProvidedOf(a.provided, pkg) = ProvidedOf(next.provided, pkg)}]

Narrow(a, next) ==
    LET a0 == DropAbsent(a, next)
    IN  NarrowLoop([acc |-> a0, panicked |-> FALSE], next, SortedList(a0.packages))

\* One iteration of the loop over inputs[1:].
Fold(a, next) == IF Agrees(a, next) THEN [acc |-> a, panicked |-> FALSE] ELSE Narrow(a, next)

----------------------------------------------------------------------------
(* unify: the missing set, the diagnostics and the merged list *)

\* The loop over the values of acc.provided (none for the nil map): a value that
\* has any of the missing names takes all of its names out of the missing set.
RECURSIVE RescueLoop(_, _, _)
RescueLoop(miss, provided, keys) ==
    IF Len(keys) = 0 THEN miss
    ELSE LET provider == provided.kv[Head(keys)]
             rest == IF provider \cap miss # {} THEN miss \ provider ELSE miss
         IN  RescueLoop(rest, provided, Tail(keys))

\* Rescue, had it taken nothing out of the missing set.
RescueNothing(miss, provided) == miss

Rescue(miss, provided) == RescueLoop(miss, provided, SortedList(DOMAIN provided.kv))

\* Missing, had the rescue been left out.
MissingUnrescued(op, a) == op.packages \ a.packages

\* originalPackages.packages.Difference(acc.packages), then the rescue.
Missing(op, a) ==
    LET miss == op.packages \ a.packages
    IN  IF miss # {} THEN Rescue(miss, a.provided) ELSE miss

\* One cluster of the error detail: "<version> (<arch>, <arch>)".
Cluster(version, archset) ==
    version \o <<" ", "(">> \o Join(SortedList(archset), <<",", " ">>) \o <<")">>

\* The map s of the error loop, rendered: one cluster per value of in.versions[pkg]
\* over the inputs, the empty string for an input that has no such key.
VersionClusters(pkg, ins) ==
    { Cluster(k, {ins[i].arch : i \in {j \in 1..Len(ins) : VersionOf(ins[j].versions, pkg) = k}}) :
        k \in {VersionOf(ins[i].versions, pkg) : i \in 1..Len(ins)} }

ErrorSummary(pkg) == <<"Unable to lock package ", "\"">> \o pkg \o <<"\"", " to a consistent version">>

ErrorDiagnostic(pkg, ins) ==
    [severity |-> "error",
     summary |-> ErrorSummary(pkg),
     detail |-> Join(SortedList(VersionClusters(pkg, ins)), <<",", " ">>)]

\* ErrorDiagnostics, had it stopped at the first name it cannot lock.
ErrorDiagnosticsFirstOnly(miss, ins) ==
    LET names == SortedList(miss)
    IN  [i \in 1..(IF Len(names) > 0 THEN 1 ELSE 0) |-> ErrorDiagnostic(names[i], ins)]

\* One error per name of the missing set, in sorted order.
ErrorDiagnostics(miss, ins) ==
    LET names == SortedList(miss)
    IN  [i \in 1..Len(names) |-> ErrorDiagnostic(names[i], ins)]

\* Unlocked, had it dropped the constraint.
UnlockedBare(pkg, op) == pkg

\* An unlocked entry: the name with the constraint it was declared with.
Unlocked(pkg, op) ==
    LET ver == op.versions[pkg]
    IN  IF ver # <<>> THEN pkg \o ver ELSE pkg

\* A locked entry: name=version.
Locked(pkg, a) == pkg \o <<"=">> \o VersionOf(a.versions, pkg)

\* PackageList, had it sorted the two groups as one list.
PackageListSortedWhole(miss, op, a) ==
    SortedList({Unlocked(n, op) : n \in miss} \cup {Locked(n, a) : n \in a.packages})

\* The merged list: the entries of the missing set, then those of the unified set.
PackageList(miss, op, a) ==
    LET m == SortedList(miss)
        l == SortedList(a.packages)
    IN  [i \in 1..Len(m) |-> Unlocked(m[i], op)] \o [i \in 1..Len(l) |-> Locked(l[i], a)]

WarningSummary(arch) == <<"unable to lock certain packages for ">> \o arch

\* fmt.Sprint of a list of strings: "[x y]".
Sprint(list) == <<"[">> \o Join(list, <<" ">>) \o <<"]">>

\* MissingHere, had it not taken the locked packages out.
MissingHereAny(input, a, miss) == input.packages \ miss

MissingHere(input, a, miss) == (input.packages \ a.packages) \ miss

\* WarningDiagnostics, had it warned for the first input only.
WarningDiagnosticsFirstArch(ins, a, miss) ==
    IF Len(ins) = 0 \/ MissingHere(Head(ins), a, miss) = {} THEN <<>>
    ELSE << [severity |-> "warning",
             summary |-> WarningSummary(Head(ins).arch),
             detail |-> Sprint(SortedList(MissingHere(Head(ins), a, miss)))] >>

\* One warning per input that has packages neither locked nor missing, in input order.
RECURSIVE WarningDiagnostics(_, _, _)
WarningDiagnostics(ins, a, miss) ==
    IF Len(ins) = 0 THEN <<>>
    ELSE LET here == MissingHere(Head(ins), a, miss)
             w == IF here # {}
                  THEN << [severity |-> "warning",
                           summary |-> WarningSummary(Head(ins).arch),
                           detail |-> Sprint(SortedList(here))] >>
                  ELSE <<>>
         IN  w \o WarningDiagnostics(Tail(ins), a, miss)

\* diag.Diagnostics.HasError
HasError(diags) == \E i \in 1..Len(diags) : diags[i].severity = "error"

----------------------------------------------------------------------------
(* unify as a whole, for a call on other arguments than those of the run *)

RECURSIVE FoldFrom(_, _, _)
FoldFrom(r, ins, i) ==
    IF i > Len(ins) \/ r.panicked THEN r
    ELSE FoldFrom(Fold(r.acc, ins[i]), ins, i + 1)

Unify(origs, ins) ==
    IF Len(origs) = 0 THEN [outcome |-> "done", pl |-> <<>>, diagnostics |-> <<>>, inputs |-> ins]
    ELSE IF Len(ins) = 0 THEN [outcome |-> "panic", pl |-> <<>>, diagnostics |-> <<>>, inputs |-> ins]
    ELSE LET op == ParseOriginals(origs)
             r == FoldFrom([acc |-> Seed(ins), panicked |-> FALSE], ins, 2)
             miss == Missing(op, r.acc)
             after == [ins EXCEPT ![1].provided = r.acc.provided]
         IN  IF r.panicked THEN [outcome |-> "panic", pl |-> <<>>, diagnostics |-> <<>>, inputs |-> after]
             ELSE [outcome |-> "done",
                   pl |-> PackageList(miss, op, r.acc),
                   diagnostics |-> ErrorDiagnostics(miss, ins) \o WarningDiagnostics(ins, r.acc, miss),
                   inputs |-> after]

----------------------------------------------------------------------------
(* The arguments the model calls unify with *)

a == <<"a">>
b == <<"b">>
c == <<"c">>
Names == {a, b, c}

v1 == <<"1">>
v2 == <<"2">>

\* The versions the resolver may give a package: a and c come in two versions.
Resolvable(name) == IF name = b THEN {v1} ELSE {v1, v2}

\* What c may provide; a and b provide nothing.
Capabilities == {{a}, {a, b}}

\* The declared specifiers.
Specifiers == {a, <<"a", "=", "1">>, <<"a", ">", "1">>, b, c}

AllArchNames == << <<"a", "m", "d", "6", "4">>, <<"a", "r", "m", "6", "4">>,
                   <<"3", "8", "6">>, <<"s", "3", "9", "0", "x">> >>

VersionMaps ==
    UNION { {f \in [S -> {v1, v2}] : \A n \in S : f[n] \in Resolvable(n)} : S \in SUBSET Names }

\* The provided maps that go with a versions map: nil (as the tests pass it), or
\* as resolvePackageList builds it, with an entry only for a package that
\* provides something.
ProvidedMaps(versions) ==
    {NilMap, MakeMap(<<>>)} \cup
    (IF c \in DOMAIN versions THEN {MakeMap([x \in {c} |-> caps]) : caps \in Capabilities} ELSE {})

\* A resolution without its architecture: packages is the key set of versions.
Shapes ==
    UNION { {[packages |-> DOMAIN vs, versions |-> vs, provided |-> p] : p \in ProvidedMaps(vs)} :
              vs \in VersionMaps }

\* The resolutions of a call on more than two architectures: those of a and c,
\* c in one version, with a provided map as resolvePackageList builds it.
CoreShapes ==
    {sh \in Shapes : /\ b \notin sh.packages
                     /\ ~sh.provided.isNil
                     /\ VersionOf(sh.versions, c) # v2
                     /\ ProvidedOf(sh.provided, c) # {a, b}}

ShapesFor(n) == IF n <= 2 THEN Shapes ELSE CoreShapes

\* The orders in which n architectures may come.
ArchOrders(n) ==
    {o \in [1..n -> {AllArchNames[i] : i \in 1..n}] : \A i, j \in 1..n : i # j => o[i] # o[j]}

InputsOfLen(n) ==
    { [i \in 1..n |-> [arch |-> o[i], packages |-> sh[i].packages,
                       versions |-> sh[i].versions, provided |-> sh[i].provided]] :
        o \in ArchOrders(n), sh \in [1..n -> ShapesFor(n)] }

Reverse(s) == [i \in 1..Len(s) |-> s[Len(s) + 1 - i]]

\* The declared lists of n specifiers: distinct strings (two may share a name),
\* ascending as ConfigDataSource.Read builds the list, or descending.
OriginalsOfLen(n) ==
    UNION { {SortedList(S), Reverse(SortedList(S))} : S \in {T \in SUBSET Specifiers : Cardinality(T) = n} }

----------------------------------------------------------------------------
(* The run of one call of unify *)

NoAcc == [packages |-> {}, versions |-> <<>>, provided |-> NilMap]
NoOriginals == [packages |-> {}, versions |-> <<>>]

\* The variables of Read before it is called.
BadYaml == [valid |-> FALSE, packages |-> <<>>, annotations |-> <<>>, archs |-> <<>>]

NoIC == [packages |-> <<>>, annotations |-> <<>>, archs |-> <<>>]

NoState == [written |-> FALSE, config |-> NoIC, id |-> BadYaml]

\* No call of Read: the state of the variables of Read in a run of unify alone.
ReadIdle ==
    /\ stage = "idle"
    /\ data = [decodes |-> TRUE, config_contents |-> BadYaml, extra_packages |-> <<>>,
               default_annotations |-> <<>>]
    /\ popts = [packages |-> <<>>, anns |-> <<>>, archs |-> <<>>]
    /\ ic = NoIC
    /\ resp = [diagnostics |-> <<>>, state |-> NoState]

NoError == [isNil |-> TRUE, wraps |-> <<>>]

\* No call of retry: the state of the variables of retry in the other runs.
RetryIdle ==
    /\ rpos = "idle"
    /\ backoff = [Steps |-> 0, Duration |-> 0, Factor |-> 0, Cap |-> 0]
    /\ stepping = backoff
    /\ ctxDone = FALSE
    /\ errs = <<>>
    /\ inflight = 0
    /\ outcomes = <<>>
    /\ ret = NoError

\* No error recorded.
NoErr == <<>>

\* No call of resolvePackageList on its own.
ResolveIdle ==
    /\ rstage = "idle"
    /\ world = <<>>
    /\ spawned = 0
    /\ tasks = <<>>
    /\ resolvedArchs = <<>>
    /\ egErr = NoErr

NoImage == [packages |-> <<>>, archs |-> <<>>]

\* No call of fromImageData on its own.
ImageIdle ==
    /\ ipos = "idle"
    /\ iarg = [ic |-> NoImage, popts |-> NoImage]
    /\ iret = NoImage

StringNull == [null |-> TRUE, value |-> <<>>]

NoResource == [exists |-> FALSE, Id |-> StringNull, Repo |-> StringNull, Config |-> StringNull,
               ImageRef |-> StringNull]

\* No build resource.
BuildIdle ==
    /\ bstate = NoResource
    /\ written = <<>>
    /\ bdiags = <<>>

OthersIdle == ResolveIdle /\ ImageIdle /\ BuildIdle

Init ==
    /\ pc = "call"
    /\ \E n \in 0..MaxOriginals : originals \in OriginalsOfLen(n)
    /\ \E n \in 0..MaxArchs : given \in InputsOfLen(n)
    /\ inputs = given
    /\ originalPackages = NoOriginals
    /\ acc = NoAcc
    /\ idx = 0
    /\ missing = {}
    /\ pl = <<>>
    /\ diagnostics = <<>>
    /\ ReadIdle
    /\ RetryIdle
    /\ OthersIdle

\* ReturnEmpty, had the accumulator been seeded before the length test.
ReturnEmptySeedFirst ==
    /\ pc = "call"
    /\ Len(originals) = 0
    /\ IF Len(inputs) = 0
       THEN pc' = "panic" /\ acc' = acc
       ELSE pc' = "done" /\ acc' = Seed(inputs)
    /\ UNCHANGED <<originals, inputs, given, originalPackages, idx, missing, pl, diagnostics>>
    /\ UNCHANGED <<readVars, retryVars, resolveVars, imageVars, buildVars>>

\* No declared specifier: unify returns nil, nil.
ReturnEmpty ==
    /\ pc = "call"
    /\ Len(originals) = 0
    /\ pc' = "done"
    /\ UNCHANGED <<originals, inputs, given, originalPackages, acc, idx, missing, pl, diagnostics>>
    /\ UNCHANGED <<readVars, retryVars, resolveVars, imageVars, buildVars>>

\* The specifiers are split and the accumulator is seeded from inputs[0].
Begin ==
    /\ pc = "call"
    /\ Len(originals) > 0
    /\ Len(inputs) > 0
    /\ originalPackages' = ParseOriginals(originals)
    /\ acc' = Seed(inputs)
    /\ idx' = 2
    /\ pc' = "fold"
    /\ UNCHANGED <<originals, inputs, given, missing, pl, diagnostics>>
    /\ UNCHANGED <<readVars, retryVars, resolveVars, imageVars, buildVars>>

\* inputs[0] of an empty slice: index out of range.
BeginPanic ==
    /\ pc = "call"
    /\ Len(originals) > 0
    /\ Len(inputs) = 0
    /\ originalPackages' = ParseOriginals(originals)
    /\ pc' = "panic"
    /\ UNCHANGED <<originals, inputs, given, acc, idx, missing, pl, diagnostics>>
    /\ UNCHANGED <<readVars, retryVars, resolveVars, imageVars, buildVars>>

\* The next resolution agrees with the accumulator: nothing to do.
FoldSkip ==
    /\ pc = "fold"
    /\ idx <= Len(inputs)
    /\ Agrees(acc, inputs[idx])
    /\ idx' = idx + 1
    /\ UNCHANGED <<pc, originals, inputs, given, originalPackages, acc, missing, pl, diagnostics>>
    /\ UNCHANGED <<readVars, retryVars, resolveVars, imageVars, buildVars>>

\* The accumulator is narrowed by the next resolution.  acc.provided is the map
\* of inputs[0], so what is written to it shows in inputs[0].
FoldNarrow ==
    /\ pc = "fold"
    /\ idx <= Len(inputs)
    /\ ~Agrees(acc, inputs[idx])
    /\ LET r == Narrow(acc, inputs[idx])
       IN  /\ ~r.panicked
           /\ acc' = r.acc
           /\ inputs' = [inputs EXCEPT ![1].provided = r.acc.provided]
    /\ idx' = idx + 1
    /\ UNCHANGED <<pc, originals, given, originalPackages, missing, pl, diagnostics>>
    /\ UNCHANGED <<readVars, retryVars, resolveVars, imageVars, buildVars>>

\* The narrowing stores into the nil provided map of inputs[0].
FoldPanic ==
    /\ pc = "fold"
    /\ idx <= Len(inputs)
    /\ ~Agrees(acc, inputs[idx])
    /\ LET r == Narrow(acc, inputs[idx])
       IN  /\ r.panicked
           /\ acc' = r.acc
    /\ pc' = "panic"
    /\ UNCHANGED <<originals, inputs, given, originalPackages, idx, missing, pl, diagnostics>>
    /\ UNCHANGED <<readVars, retryVars, resolveVars, imageVars, buildVars>>

\* Finish, had the merged list kept the declared names the rescue took out.
FinishListingRescued ==
    /\ pc = "fold"
    /\ idx > Len(inputs)
    /\ missing' = Missing(originalPackages, acc)
    /\ diagnostics' = ErrorDiagnostics(missing', inputs) \o WarningDiagnostics(inputs, acc, missing')
    /\ pl' = PackageList(MissingUnrescued(originalPackages, acc), originalPackages, acc)
    /\ pc' = "done"
    /\ UNCHANGED <<originals, inputs, given, originalPackages, acc, idx>>
    /\ UNCHANGED <<readVars, retryVars, resolveVars, imageVars, buildVars>>

\* All resolutions folded: the missing set, the diagnostics and the merged list.
Finish ==
    /\ pc = "fold"
    /\ idx > Len(inputs)
    /\ missing' = Missing(originalPackages, acc)
    /\ diagnostics' = ErrorDiagnostics(missing', inputs) \o WarningDiagnostics(inputs, acc, missing')
    /\ pl' = PackageList(missing', originalPackages, acc)
    /\ pc' = "done"
    /\ UNCHANGED <<originals, inputs, given, originalPackages, acc, idx>>
    /\ UNCHANGED <<readVars, retryVars, resolveVars, imageVars, buildVars>>

----------------------------------------------------------------------------
(* unify on one declared specifier of any form, nothing resolved *)

MaxSpecLen == 3

\* The characters of a specifier: a name character, a version character and
\* the four delimiters.
SpecChars == {"a", "1", "=", "<", ">", "~"}

\* Every specifier of at most MaxSpecLen characters, the empty one included.
SpecStrings == UNION {[1..n -> SpecChars] : n \in 0..MaxSpecLen}

\* One architecture that resolved nothing, as the test 'empty inputs' passes it.
NothingResolved == [arch |-> AllArchNames[1], packages |-> {}, versions |-> <<>>, provided |-> NilMap]

InitParse ==
    /\ pc = "call"
    /\ \E s \in SpecStrings : originals = <<s>>
    /\ given \in {<<>>, <<NothingResolved>>}
    /\ inputs = given
    /\ originalPackages = NoOriginals
    /\ acc = NoAcc
    /\ idx = 0
    /\ missing = {}
    /\ pl = <<>>
    /\ diagnostics = <<>>
    /\ ReadIdle
    /\ RetryIdle
    /\ OthersIdle

NextParse ==
    \/ Begin
    \/ BeginPanic
    \/ Finish

SpecParse == InitParse /\ [][NextParse]_vars

Next ==
    \/ ReturnEmpty
    \/ Begin
    \/ BeginPanic
    \/ FoldSkip
    \/ FoldNarrow
    \/ FoldPanic
    \/ Finish

Spec == Init /\ [][Next]_vars

----------------------------------------------------------------------------
(* Architectures, as the apko types name them *)

amd64 == <<"a", "m", "d", "6", "4">>
arm64 == <<"a", "r", "m", "6", "4">>
arch386 == <<"3", "8", "6">>
s390x == <<"s", "3", "9", "0", "x">>

\* The names apk has for them.
x86_64 == <<"x", "8", "6", "_", "6", "4">>
aarch64 == <<"a", "a", "r", "c", "h", "6", "4">>
x86 == <<"x", "8", "6">>

\* The value that stands for every architecture in a list of names.
all == <<"a", "l", "l">>

\* apkotypes.AllArchs: the architectures of the model, in its order.
AllArchs == <<arch386, amd64, arm64, s390x>>

\* apkotypes.ParseArchitecture: the canonical name; a name it does not know is kept.
ParseArchitecture(s) ==
    IF s \in {x86_64, amd64} THEN amd64
    ELSE IF s \in {aarch64, arm64} THEN arm64
    ELSE IF s \in {x86, arch386} THEN arch386
    ELSE s

\* Architecture.ToAPK: the name apk has for a canonical name.
ToAPK(arch) ==
    IF arch = amd64 THEN x86_64
    ELSE IF arch = arm64 THEN aarch64
    ELSE IF arch = arch386 THEN x86
    ELSE arch

\* apkotypes.ParseArchitectures: ["all"] is every architecture; any other list
\* is parsed, deduplicated and sorted.
ParseArchitectures(in) ==
    IF in = <<all>> THEN AllArchs
    ELSE SortedList({ParseArchitecture(in[i]) : i \in 1..Len(in)})

\* ParseArchitecture(a.ToAPK()), the normalization of Read and resolvePackageList.
Normalize(arch) == ParseArchitecture(ToAPK(arch))

----------------------------------------------------------------------------
(* ConfigDataSource.Read: preparing the image configuration *)

Elements(list) == {list[i] : i \in 1..Len(list)}

\* CombineMaps, had it copied right into left and returned left.
CombineMapsInPlace(left, right) ==
    LET merged == [k \in (DOMAIN left) \cup (DOMAIN right) |->
                      IF k \in DOMAIN right THEN right[k] ELSE left[k]]
    IN  [out |-> merged, left |-> merged, right |-> right]

\* combineMaps: out is a new map with right copied, then left copied over it.
\* The record holds the two arguments as they are after the call.
CombineMaps(left, right) ==
    [out |-> [k \in (DOMAIN left) \cup (DOMAIN right) |->
                 IF k \in DOMAIN left THEN left[k] ELSE right[k]],
     left |-> left,
     right |-> right]

\* sets.List(sets.New(list...).Insert(more...))
InsertAll(list, more) == SortedList(Elements(list) \cup Elements(more))

\* SelectArchs, had the provider's architectures replaced those of the configuration.
SelectArchsProviderFirst(configured, defaults) ==
    IF Len(defaults) # 0 THEN ParseArchitectures(defaults)
    ELSE IF Len(configured) # 0 THEN configured
    ELSE AllArchs

\* The architectures of the configuration, else those of the provider, else all.
SelectArchs(configured, defaults) ==
    IF Len(configured) = 0
    THEN IF Len(defaults) # 0 THEN ParseArchitectures(defaults) ELSE AllArchs
    ELSE configured

\* The loop that normalizes the architectures surfaced.
NormalizeAll(archs) == [i \in 1..Len(archs) |-> Normalize(archs[i])]

\* The image configuration after the provider's and the data source's additions.
Prepare(doc, d, p) ==
    LET withProvider == InsertAll(doc.packages, p.packages)
        inner == CombineMaps(d.default_annotations, p.anns)
        outer == CombineMaps(doc.annotations, inner.out)
    IN  [ic |-> [packages |-> InsertAll(withProvider, d.extra_packages),
                 annotations |-> outer.out,
                 archs |-> NormalizeAll(SelectArchs(doc.archs, p.archs))],
         default_annotations |-> inner.left,
         anns |-> inner.right]

----------------------------------------------------------------------------
(* ConfigDataSource.resolvePackageList *)

NameStoppers == {"@", "=", ">", "<", "~"}

Operators == {"=", ">", "<", "~"}

Alphanumeric == {"0", "1", "2", "3", "4", "6", "8", "9", "a", "b", "c", "d", "h", "l", "m", "r", "s", "x"}

IndexOfAny(s, chars) ==
    IF \E i \in 1..Len(s) : s[i] \in chars
    THEN CHOOSE i \in 1..Len(s) : s[i] \in chars /\ \A j \in 1..(i - 1) : s[j] \notin chars
    ELSE 0

\* packageNameRegex.FindAllStringSubmatch(prov, -1): whether prov matches
\* ^([^@=><~]+)(([=><~]+)([^@]+))?(@([a-zA-Z0-9]+))?$ and the first group.
MatchName(prov) ==
    LET i == IndexOfAny(prov, NameStoppers)
        name == IF i = 0 THEN prov ELSE SubSeq(prov, 1, i - 1)
        rest == IF i = 0 THEN <<>> ELSE SubSeq(prov, i, Len(prov))
        j == IndexOfAny(rest, {"@"})
        constraint == IF j = 0 THEN rest ELSE SubSeq(rest, 1, j - 1)
        tag == IF j = 0 THEN <<>> ELSE SubSeq(rest, j + 1, Len(rest))
    IN  [ok |-> /\ name # <<>>
                /\ (constraint = <<>> \/ (Len(constraint) >= 2 /\ constraint[1] \in Operators))
                /\ (j = 0 \/ (tag # <<>> /\ \A k \in 1..Len(tag) : tag[k] \in Alphanumeric)),
         name |-> name]

\* The names taken from pkg.Provides; an entry that does not match is skipped.
ProvidedNames(provides) ==
    {MatchName(provides[i]).name : i \in {j \in 1..Len(provides) : MatchName(provides[j]).ok}}

\* The loop over the packages of one architecture.  A package gets an entry in
\* provided only when one of its provides matches.
RECURSIVE ResolvedLoop(_, _)
ResolvedLoop(r, pkgs) ==
    IF Len(pkgs) = 0 THEN r
    ELSE LET pkg == Head(pkgs)
             names == ProvidedNames(pkg.Provides)
             r1 == [r EXCEPT !.packages = @ \cup {pkg.Name},
                             !.versions = [x \in (DOMAIN @) \cup {pkg.Name} |->
                                              IF x = pkg.Name THEN pkg.Version ELSE @[x]],
                             !.provided = IF names # {}
                                          THEN MapPut(@, pkg.Name, ProvidedOf(@, pkg.Name) \cup names)
                                          ELSE @]
         IN  ResolvedLoop(r1, Tail(pkgs))

\* The resolved record one task builds from the package list of its architecture.
Resolved(arch, pkgs) ==
    ResolvedLoop([arch |-> Normalize(arch), packages |-> {}, versions |-> <<>>,
                  provided |-> MakeMap(<<>>)], pkgs)

TempDirError ==
    [severity |-> "error", summary |-> <<"Unable to create temp directory">>, detail |-> <<"mkdir">>]

LocksError(arch) ==
    [severity |-> "error", summary |-> <<"error computing package locks">>, detail |-> ToAPK(arch)]

\* What BuildPackageList may answer for one architecture.
Package(name, version, provides) == [Name |-> name, Version |-> version, Provides |-> provides]

Failed == [err |-> TRUE, pkgs |-> <<>>]

Answered(pkgs) == [err |-> FALSE, pkgs |-> pkgs]

Answers ==
    {Failed,
     Answered(<<Package(a, v1, <<>>)>>),
     Answered(<<Package(a, v2, <<>>), Package(c, v1, << <<"b", "=", "1">>, <<"=", "1">> >>)>>),
     Answered(<<Package(c, v1, << <<"a">>, <<"b", "@", "x">> >>), Package(b, v1, <<>>)>>)}

----------------------------------------------------------------------------
(* ConfigDataSource.Read: the request and the response *)

Ann(keys, value) == [k \in keys |-> value]

\* What yaml.Unmarshal makes of the configuration contents.
Documents ==
    {BadYaml} \cup
    [valid : {TRUE},
     packages : {<<>>, <<a>>, <<b, a>>},
     annotations : {Ann({}, "yaml"), Ann({"x"}, "yaml")},
     archs : {<<>>, <<x86_64>>, <<arm64, amd64>>}]

Requests ==
    [decodes : BOOLEAN,
     config_contents : Documents,
     extra_packages : {<<>>, <<<<"a", "=", "1">>>>},
     default_annotations : {Ann({}, "data"), Ann({"x"}, "data"), Ann({"x", "y"}, "data")}]

ProviderOptions ==
    [packages : {<<>>, <<c>>},
     anns : {Ann({}, "provider"), Ann({"z"}, "provider"), Ann({"x", "y", "z"}, "provider")},
     archs : {<<>>, <<all>>, <<aarch64>>, <<x86_64, arch386, amd64>>}]

\* sha256 of the configuration contents, in hexadecimal: stands for its argument.
Sha256Hex(contents) == contents

\* generateValue(ic): the image configuration as an object value.  Its errors are
\* those of a type it does not know; ImageConfiguration has none.
GenerateValue(icv) == [value |-> icv, diags |-> <<>>]

DecodeError ==
    [severity |-> "error", summary |-> <<"Value Conversion Error">>, detail |-> <<>>]

ParseError ==
    [severity |-> "error", summary |-> <<"Unable to parse apko configuration">>, detail |-> <<"yaml">>]

\* No call of unify yet.
UnifyIdle ==
    /\ pc = "call"
    /\ originals = <<>>
    /\ inputs = <<>>
    /\ given = <<>>
    /\ originalPackages = NoOriginals
    /\ acc = NoAcc
    /\ idx = 0
    /\ missing = {}
    /\ pl = <<>>
    /\ diagnostics = <<>>

InitRead ==
    /\ UnifyIdle
    /\ stage = "request"
    /\ data \in Requests
    /\ popts \in ProviderOptions
    /\ ic = NoIC
    /\ resp = [diagnostics |-> <<>>, state |-> NoState]
    /\ RetryIdle
    /\ OthersIdle

\* req.Config.Get reports an error: Read returns.
ReadDecodeError ==
    /\ stage = "request"
    /\ ~data.decodes
    /\ resp' = [resp EXCEPT !.diagnostics = @ \o <<DecodeError>>]
    /\ stage' = "returned"
    /\ UNCHANGED <<unifyVars, data, popts, ic>>
    /\ UNCHANGED <<retryVars, resolveVars, imageVars, buildVars>>

\* yaml.Unmarshal fails: Read returns.
ReadParseError ==
    /\ stage = "request"
    /\ data.decodes
    /\ ~data.config_contents.valid
    /\ resp' = [resp EXCEPT !.diagnostics = @ \o <<ParseError>>]
    /\ stage' = "returned"
    /\ UNCHANGED <<unifyVars, data, popts, ic>>
    /\ UNCHANGED <<retryVars, resolveVars, imageVars, buildVars>>

\* The packages, annotations and architectures of the provider and of the data
\* source are added to those of the configuration.
ReadPrepare ==
    /\ stage = "request"
    /\ data.decodes
    /\ data.config_contents.valid
    /\ LET r == Prepare(data.config_contents, data, popts)
       IN  /\ ic' = r.ic
           /\ data' = [data EXCEPT !.default_annotations = r.default_annotations]
           /\ popts' = [popts EXCEPT !.anns = r.anns]
    /\ stage' = "prepared"
    /\ UNCHANGED <<unifyVars, resp>>
    /\ UNCHANGED <<retryVars, resolveVars, imageVars, buildVars>>

\* resolvePackageList: every task has its package list, unify is called on the
\* resolutions in the order of ic.Archs, and its diagnostics join the response.
ReadResolve ==
    /\ stage = "prepared"
    /\ \E answers \in [1..Len(ic.archs) -> Answers \ {Failed}] :
          LET archs == [i \in 1..Len(ic.archs) |-> Resolved(ic.archs[i], answers[i].pkgs)]
              r == Unify(ic.packages, archs)
          IN  /\ r.outcome = "done"
              /\ originals' = ic.packages
              /\ given' = archs
              /\ inputs' = r.inputs
              /\ pl' = r.pl
              /\ diagnostics' = r.diagnostics
              /\ resp' = [resp EXCEPT !.diagnostics = @ \o r.diagnostics]
    /\ pc' = "done"
    /\ stage' = "resolved"
    /\ UNCHANGED <<originalPackages, acc, idx, missing, data, popts, ic>>
    /\ UNCHANGED <<retryVars, resolveVars, imageVars, buildVars>>

\* resolvePackageList: no temporary directory, or a task fails; unify is not called.
ReadResolveError ==
    /\ stage = "prepared"
    /\ \E d \in {TempDirError} \cup {LocksError(ic.archs[i]) : i \in 1..Len(ic.archs)} :
          /\ pl' = <<>>
          /\ diagnostics' = <<d>>
          /\ resp' = [resp EXCEPT !.diagnostics = @ \o <<d>>]
    /\ stage' = "resolved"
    /\ UNCHANGED <<pc, originals, inputs, given, originalPackages, acc, idx, missing, data, popts, ic>>
    /\ UNCHANGED <<retryVars, resolveVars, imageVars, buildVars>>

\* The diagnostics have an error: Read returns, nothing is written.
ReadBlocked ==
    /\ stage = "resolved"
    /\ HasError(diagnostics)
    /\ stage' = "returned"
    /\ UNCHANGED <<unifyVars, data, popts, ic, resp>>
    /\ UNCHANGED <<retryVars, resolveVars, imageVars, buildVars>>

\* ReadSave, had it written the state whatever the diagnostics are.
ReadSaveAnyway ==
    /\ stage = "resolved"
    /\ ic' = [ic EXCEPT !.packages = pl]
    /\ resp' = [resp EXCEPT !.state = [written |-> TRUE, config |-> GenerateValue(ic').value,
                                       id |-> Sha256Hex(data.config_contents)]]
    /\ stage' = "returned"
    /\ UNCHANGED <<unifyVars, data, popts>>
    /\ UNCHANGED <<retryVars, resolveVars, imageVars, buildVars>>

\* No error: the merged list replaces the packages of the configuration, and the
\* configuration and the hash of its contents are written to the state.
ReadSave ==
    /\ stage = "resolved"
    /\ ~HasError(diagnostics)
    /\ ic' = [ic EXCEPT !.packages = pl]
    /\ ~HasError(GenerateValue(ic').diags)
    /\ resp' = [resp EXCEPT !.state = [written |-> TRUE, config |-> GenerateValue(ic').value,
                                       id |-> Sha256Hex(data.config_contents)]]
    /\ stage' = "returned"
    /\ UNCHANGED <<unifyVars, data, popts>>
    /\ UNCHANGED <<retryVars, resolveVars, imageVars, buildVars>>

NextRead ==
    \/ ReadDecodeError
    \/ ReadParseError
    \/ ReadPrepare
    \/ ReadResolve
    \/ ReadResolveError
    \/ ReadBlocked
    \/ ReadSave

SpecRead == InitRead /\ [][NextRead]_vars

----------------------------------------------------------------------------
(* resolvePackageList: one task per architecture, run by an errgroup *)

\* The zero value of resolved, as make([]resolved, n) fills the slice.
ZeroResolved == [arch |-> <<>>, packages |-> {}, versions |-> <<>>, provided |-> NilMap]

\* What a task's calls return: fromImageData gives a build context or an error,
\* BuildPackageList gives one of Answers.
Worlds == {[image |-> FALSE, answer |-> Failed]} \cup [image : {TRUE}, answer : Answers]

\* The errors of a task, told apart by the architecture: the working directory
\* of fromImageData and the repository of BuildPackageList are named after it.
ImageErr(arch) == <<"/">> \o ToAPK(arch)

PackageListErr(arch) == ToAPK(arch)

LocksDiagnostic(err) ==
    [severity |-> "error", summary |-> <<"error computing package locks">>, detail |-> err]

\* The architectures of a prepared configuration: up to MaxArchs canonical ones,
\* in any order.
ArchLists ==
    UNION { {o \in [1..n -> {amd64, arm64, arch386}] : \A i, j \in 1..n : i # j => o[i] # o[j]} :
              n \in 1..MaxArchs }

\* The configuration ConfigDataSource.Read hands over.
PreparedConfigs == [packages : {<<a>>, <<a, b>>}, annotations : {<<>>}, archs : ArchLists]

InitResolve ==
    /\ UnifyIdle
    /\ stage = "prepared"
    /\ data = [decodes |-> TRUE, config_contents |-> BadYaml, extra_packages |-> <<>>,
               default_annotations |-> <<>>]
    /\ popts = [packages |-> <<>>, anns |-> <<>>, archs |-> <<>>]
    /\ ic \in PreparedConfigs
    /\ resp = [diagnostics |-> <<>>, state |-> NoState]
    /\ RetryIdle
    /\ rstage = "call"
    /\ world \in [1..Len(ic.archs) -> Worlds]
    /\ spawned = 0
    /\ tasks = <<>>
    /\ resolvedArchs = <<>>
    /\ egErr = NoErr
    /\ ImageIdle
    /\ BuildIdle

\* os.MkdirTemp fails: no task is started.
ResolveTempDirError ==
    /\ rstage = "call"
    /\ pl' = <<>>
    /\ diagnostics' = <<TempDirError>>
    /\ rstage' = "returned"
    /\ UNCHANGED <<pc, originals, inputs, given, originalPackages, acc, idx, missing>>
    /\ UNCHANGED <<world, spawned, tasks, resolvedArchs, egErr>>
    /\ UNCHANGED <<readVars, retryVars, imageVars, buildVars>>

\* The errgroup and the slice archs are made.
ResolveStart ==
    /\ rstage = "call"
    /\ resolvedArchs' = [i \in 1..Len(ic.archs) |-> ZeroResolved]
    /\ tasks' = [i \in 1..Len(ic.archs) |-> "unborn"]
    /\ rstage' = "spawn"
    /\ UNCHANGED <<world, spawned, egErr>>
    /\ UNCHANGED <<unifyVars, readVars, retryVars, imageVars, buildVars>>

\* eg.Go starts the task of the next architecture; after the last one the caller
\* is in eg.Wait.
Spawn ==
    /\ rstage = "spawn"
    /\ spawned < Len(ic.archs)
    /\ spawned' = spawned + 1
    /\ tasks' = [tasks EXCEPT ![spawned + 1] = "ready"]
    /\ rstage' = IF spawned + 1 = Len(ic.archs) THEN "wait" ELSE "spawn"
    /\ UNCHANGED <<world, resolvedArchs, egErr>>
    /\ UNCHANGED <<unifyVars, readVars, retryVars, imageVars, buildVars>>

\* What errgroup does with the error a task returns: the first one is kept.
Record(err) == IF egErr = NoErr THEN err ELSE egErr

\* Task i: fromImageData gives the build context.
TaskImage(i) ==
    /\ tasks[i] = "ready"
    /\ world[i].image
    /\ tasks' = [tasks EXCEPT ![i] = "built"]
    /\ UNCHANGED <<rstage, world, spawned, resolvedArchs, egErr>>
    /\ UNCHANGED <<unifyVars, readVars, retryVars, imageVars, buildVars>>

\* Task i: fromImageData fails, the task returns the error.
TaskImageError(i) ==
    /\ tasks[i] = "ready"
    /\ ~world[i].image
    /\ egErr' = Record(ImageErr(ic.archs[i]))
    /\ tasks' = [tasks EXCEPT ![i] = "failed"]
    /\ UNCHANGED <<rstage, world, spawned, resolvedArchs>>
    /\ UNCHANGED <<unifyVars, readVars, retryVars, imageVars, buildVars>>

\* TaskResolved, had the task appended its resolution to those already there.
TaskResolvedAppending(i) ==
    /\ tasks[i] = "built"
    /\ ~world[i].answer.err
    /\ LET free == {j \in 1..Len(resolvedArchs) : resolvedArchs[j] = ZeroResolved}
           k == CHOOSE j \in free : \A m \in free : j <= m
       IN  resolvedArchs' = [resolvedArchs EXCEPT ![k] = Resolved(ic.archs[i], world[i].answer.pkgs)]
    /\ tasks' = [tasks EXCEPT ![i] = "done"]
    /\ UNCHANGED <<rstage, world, spawned, egErr>>
    /\ UNCHANGED <<unifyVars, readVars, retryVars, imageVars, buildVars>>

\* Task i: BuildPackageList answers, the resolution is stored in archs[i].
TaskResolved(i) ==
    /\ tasks[i] = "built"
    /\ ~world[i].answer.err
    /\ resolvedArchs' = [resolvedArchs EXCEPT ![i] = Resolved(ic.archs[i], world[i].answer.pkgs)]
    /\ tasks' = [tasks EXCEPT ![i] = "done"]
    /\ UNCHANGED <<rstage, world, spawned, egErr>>
    /\ UNCHANGED <<unifyVars, readVars, retryVars, imageVars, buildVars>>

\* Task i: BuildPackageList fails, the task returns the error.
TaskResolveError(i) ==
    /\ tasks[i] = "built"
    /\ world[i].answer.err
    /\ egErr' = Record(PackageListErr(ic.archs[i]))
    /\ tasks' = [tasks EXCEPT ![i] = "failed"]
    /\ UNCHANGED <<rstage, world, spawned, resolvedArchs>>
    /\ UNCHANGED <<unifyVars, readVars, retryVars, imageVars, buildVars>>

\* Every task has returned.
AllReturned == \A i \in 1..Len(tasks) : tasks[i] \in {"done", "failed"}

\* eg.Wait returns the first error: one diagnostic, no list, unify is not called.
WaitError ==
    /\ rstage = "wait"
    /\ AllReturned
    /\ egErr # NoErr
    /\ pl' = <<>>
    /\ diagnostics' = <<LocksDiagnostic(egErr)>>
    /\ rstage' = "returned"
    /\ UNCHANGED <<pc, originals, inputs, given, originalPackages, acc, idx, missing>>
    /\ UNCHANGED <<world, spawned, tasks, resolvedArchs, egErr>>
    /\ UNCHANGED <<readVars, retryVars, imageVars, buildVars>>

\* WaitUnify, had it not looked at the error of eg.Wait.
WaitUnifyAnyway ==
    /\ rstage = "wait"
    /\ AllReturned
    /\ LET r == Unify(ic.packages, resolvedArchs)
       IN  /\ pc' = r.outcome
           /\ originals' = ic.packages
           /\ given' = resolvedArchs
           /\ inputs' = r.inputs
           /\ pl' = r.pl
           /\ diagnostics' = r.diagnostics
    /\ rstage' = "returned"
    /\ UNCHANGED <<originalPackages, acc, idx, missing>>
    /\ UNCHANGED <<world, spawned, tasks, resolvedArchs, egErr>>
    /\ UNCHANGED <<readVars, retryVars, imageVars, buildVars>>

\* eg.Wait returns nil: unify is called on the declared packages and archs.
WaitUnify ==
    /\ rstage = "wait"
    /\ AllReturned
    /\ egErr = NoErr
    /\ LET r == Unify(ic.packages, resolvedArchs)
       IN  /\ pc' = r.outcome
           /\ originals' = ic.packages
           /\ given' = resolvedArchs
           /\ inputs' = r.inputs
           /\ pl' = r.pl
           /\ diagnostics' = r.diagnostics
    /\ rstage' = "returned"
    /\ UNCHANGED <<originalPackages, acc, idx, missing>>
    /\ UNCHANGED <<world, spawned, tasks, resolvedArchs, egErr>>
    /\ UNCHANGED <<readVars, retryVars, imageVars, buildVars>>

NextResolve ==
    \/ ResolveTempDirError
    \/ ResolveStart
    \/ Spawn
    \/ \E i \in 1..Len(tasks) : TaskImage(i)
    \/ \E i \in 1..Len(tasks) : TaskImageError(i)
    \/ \E i \in 1..Len(tasks) : TaskResolved(i)
    \/ \E i \in 1..Len(tasks) : TaskResolveError(i)
    \/ WaitError
    \/ WaitUnify

SpecResolve == InitResolve /\ [][NextResolve]_vars

----------------------------------------------------------------------------
(* fromImageData: the image configuration a build starts from *)

\* The extra packages left once the bare name of every image entry is deleted
\* from them: an extra goes only when it is, as a string, such a bare name.
ExtraPkgs(pkgs, extras) == extras \ {SplitName(pkg) : pkg \in pkgs}

\* sets.List(pkgs.Union(extraPkgs))
ImagePackages(packages, extras) ==
    SortedList(Elements(packages) \cup ExtraPkgs(Elements(packages), Elements(extras)))

\* The loop over ic.Archs.
ParseAll(list) == [i \in 1..Len(list) |-> ParseArchitecture(list[i])]

\* ic2 as fromImageData returns it.
FromImageData(icv, p) ==
    [packages |-> ImagePackages(icv.packages, p.packages),
     archs |-> SelectArchs(ParseAll(icv.archs), p.archs)]

\* The package lists of an image configuration, in any order, also with an
\* entry twice.
ImagePackageLists ==
    {<<a, a>>} \cup
    UNION { {SortedList(S), Reverse(SortedList(S))} : S \in SUBSET {a, <<"a", "=", "1">>, b} }

\* The extra packages of the provider.
ExtraPackageLists == {SortedList(S) : S \in SUBSET {a, <<"a", ">", "1">>, b, c}}

ImageArguments ==
    [ic : [packages : ImagePackageLists, archs : {<<>>, <<x86_64>>, <<arm64, amd64>>}],
     popts : [packages : ExtraPackageLists, archs : {<<>>, <<aarch64>>, <<all>>}]]

InitImage ==
    /\ UnifyIdle
    /\ ReadIdle
    /\ RetryIdle
    /\ ResolveIdle
    /\ ipos = "call"
    /\ iarg \in ImageArguments
    /\ iret = NoImage
    /\ BuildIdle

\* build.NewOptions fails: no configuration is returned.  The architectures of
\* the caller's configuration have been parsed in place by then.
FromImageDataError ==
    /\ ipos = "call"
    /\ iarg' = [iarg EXCEPT !.ic.archs = ParseAll(@)]
    /\ ipos' = "failed"
    /\ UNCHANGED iret
    /\ UNCHANGED <<unifyVars, readVars, retryVars, resolveVars, buildVars>>

\* The configuration is returned.  The package list is set in the callee's copy
\* of ic; the architectures are parsed in the slice the caller shares.
FromImageDataReturns ==
    /\ ipos = "call"
    /\ iret' = FromImageData(iarg.ic, iarg.popts)
    /\ iarg' = [iarg EXCEPT !.ic.archs = ParseAll(@)]
    /\ ipos' = "returned"
    /\ UNCHANGED <<unifyVars, readVars, retryVars, resolveVars, buildVars>>

NextImage ==
    \/ FromImageDataError
    \/ FromImageDataReturns

SpecImage == InitImage /\ [][NextImage]_vars

----------------------------------------------------------------------------
(* The build resource: Create, Read, Update, Delete, ImportState *)

MaxOps == 3             \* most operations on the resource in one run

StringValue(x) == [null |-> FALSE, value |-> x]

\* types.String.ValueString: the empty string for null.
ValueString(v) == IF v.null THEN <<>> ELSE v.value

DefaultRegistry == <<"i", "n", "d", "e", "x", ".", "d", "o", "c", "k", "e", "r", ".", "i", "o">>

DefaultNamespace == <<"l", "i", "b", "r", "a", "r", "y">>

RepoChars == {"g", "i", "o", "r", ".", "/"}

\* The repositories of a plan: on the default registry, on a named one, and two
\* that name.NewRepository refuses.
Repos == {<<"r">>, <<"g", ".", "i", "o", "/", "r">>, <<>>, <<"R">>}

\* name.NewRepository returns no error.
ValidRepository(s) == s # <<>> /\ \A i \in 1..Len(s) : s[i] \in RepoChars

\* The text before the first "/" names a registry.
HasRegistry(s) ==
    \E i \in 1..Len(s) :
        /\ s[i] = "/"
        /\ \A j \in 1..(i - 1) : s[j] # "/"
        /\ \E j \in 1..(i - 1) : s[j] = "."

\* Repository.Name: the default registry and namespace are filled in.
RepositoryName(s) ==
    IF HasRegistry(s) THEN s
    ELSE IF \E i \in 1..Len(s) : s[i] = "/" THEN DefaultRegistry \o <<"/">> \o s
    ELSE DefaultRegistry \o <<"/">> \o DefaultNamespace \o <<"/">> \o s

\* repo.Digest(digest.String()).String()
Digest(s, hash) == RepositoryName(s) \o <<"@">> \o hash

\* The digests a build may give.
Hashes == {<<"sha256:1">>, <<"sha256:2">>}

\* What doBuild returns: an error, or the digest of the image index.
NotBuilt == [called |-> FALSE, err |-> FALSE, hash |-> <<>>]

BuildOutcomes == {[called |-> TRUE, err |-> TRUE, hash |-> <<>>]} \cup
                 [called : {TRUE}, err : {FALSE}, hash : Hashes]

Configs == {<<"c">>}

\* The model a plan decodes to: id as the state has it, image_ref not known yet.
Plans ==
    {[exists |-> TRUE, Id |-> bstate.Id, Repo |-> StringValue(repo), Config |-> StringValue(config),
      ImageRef |-> StringNull] : repo \in Repos, config \in Configs}

ClientError(detail) == [severity |-> "error", summary |-> <<"Client Error">>, detail |-> detail]

\* One operation in the log: the model it decoded, what doBuild returned, and
\* the state it wrote, if it wrote one.
Operation(op, d, built, wrote, st) ==
    [op |-> op, data |-> d, built |-> built, wrote |-> wrote, state |-> st]

InitBuild ==
    /\ UnifyIdle
    /\ ReadIdle
    /\ RetryIdle
    /\ ResolveIdle
    /\ ImageIdle
    /\ bstate = NoResource
    /\ written = <<>>
    /\ bdiags = <<>>

\* An operation that ends at the repository or at the build: diagnostics, no state.
Refused(op, d, built) ==
    /\ bdiags' = <<ClientError(IF built.called THEN <<"build">> ELSE <<"Error parsing repo">>)>>
    /\ written' = Append(written, Operation(op, d, built, FALSE, NoResource))
    /\ UNCHANGED bstate

\* The state is set to d with id and image_ref set to ref.
Written(op, d, built, id, ref) ==
    LET st == [d EXCEPT !.Id = StringValue(id), !.ImageRef = StringValue(ref)]
    IN  /\ bstate' = st
        /\ written' = Append(written, Operation(op, d, built, TRUE, st))
        /\ bdiags' = <<>>

\* Create and Update: the plan is built, id and image_ref are its reference.
CreateOrUpdate(op) ==
    \E d \in Plans :
        IF ~ValidRepository(ValueString(d.Repo))
        THEN Refused(op, d, NotBuilt)
        ELSE \E built \in BuildOutcomes :
                IF built.err
                THEN Refused(op, d, built)
                ELSE LET dig == Digest(ValueString(d.Repo), built.hash)
                     IN  Written(op, d, built, dig, dig)

BuildCreate ==
    /\ Len(written) < MaxOps
    /\ ~bstate.exists
    /\ CreateOrUpdate("Create")
    /\ UNCHANGED <<unifyVars, readVars, retryVars, resolveVars, imageVars>>

BuildUpdate ==
    /\ Len(written) < MaxOps
    /\ bstate.exists
    /\ CreateOrUpdate("Update")
    /\ UNCHANGED <<unifyVars, readVars, retryVars, resolveVars, imageVars>>

\* BuildRead, had it cleared image_ref only when the rebuilt reference differs.
BuildReadKeepingId ==
    /\ Len(written) < MaxOps
    /\ bstate.exists
    /\ IF ~ValidRepository(ValueString(bstate.Repo))
       THEN Refused("Read", bstate, NotBuilt)
       ELSE \E built \in BuildOutcomes :
               IF built.err
               THEN Refused("Read", bstate, built)
               ELSE LET dig == Digest(ValueString(bstate.Repo), built.hash)
                    IN  IF dig # ValueString(bstate.ImageRef)
                        THEN Written("Read", bstate, built, ValueString(bstate.Id), <<>>)
                        ELSE Written("Read", bstate, built, dig, dig)
    /\ UNCHANGED <<unifyVars, readVars, retryVars, resolveVars, imageVars>>

\* Read: the state is rebuilt; its reference is kept when it is the stored
\* image_ref, and id and image_ref are emptied when it is not.
BuildRead ==
    /\ Len(written) < MaxOps
    /\ bstate.exists
    /\ IF ~ValidRepository(ValueString(bstate.Repo))
       THEN Refused("Read", bstate, NotBuilt)
       ELSE \E built \in BuildOutcomes :
               IF built.err
               THEN Refused("Read", bstate, built)
               ELSE LET dig == Digest(ValueString(bstate.Repo), built.hash)
                    IN  IF dig # ValueString(bstate.ImageRef)
                        THEN Written("Read", bstate, built, <<>>, <<>>)
                        ELSE Written("Read", bstate, built, dig, dig)
    /\ UNCHANGED <<unifyVars, readVars, retryVars, resolveVars, imageVars>>

\* Delete reads the state and writes nothing; terraform then drops the resource.
BuildDelete ==
    /\ Len(written) < MaxOps
    /\ bstate.exists
    /\ written' = Append(written, Operation("Delete", bstate, NotBuilt, FALSE, NoResource))
    /\ bstate' = NoResource
    /\ bdiags' = <<>>
    /\ UNCHANGED <<unifyVars, readVars, retryVars, resolveVars, imageVars>>

\* ImportState: the id of the request is the only attribute of the new state.
BuildImportState ==
    /\ Len(written) < MaxOps
    /\ ~bstate.exists
    /\ \E repo \in {r \in Repos : ValidRepository(r)}, hash \in Hashes :
          LET st == [NoResource EXCEPT !.exists = TRUE, !.Id = StringValue(Digest(repo, hash))]
          IN  /\ bstate' = st
              /\ written' = Append(written, Operation("ImportState", NoResource, NotBuilt, TRUE, st))
    /\ bdiags' = <<>>
    /\ UNCHANGED <<unifyVars, readVars, retryVars, resolveVars, imageVars>>

NextBuild ==
    \/ BuildCreate
    \/ BuildRead
    \/ BuildUpdate
    \/ BuildDelete
    \/ BuildImportState

SpecBuild == InitBuild /\ [][NextBuild]_vars

----------------------------------------------------------------------------
(* retry *)

\* The errors f may return.
Errors == {"the first error", "the second error"}

\* wait.ErrWaitTimeout and ctx.Err()
ErrWaitTimeout == "timed out waiting for the condition"

ContextError == "context canceled"

\* errors.Join: the nil errors are dropped; nil when none is left.
ErrorsJoin(es) ==
    LET kept == SelectSeq(es, LAMBDA e : e # "nil")
    IN  IF Len(kept) = 0 THEN NoError ELSE [isNil |-> FALSE, wraps |-> kept]

\* errors.Is(err, target) for a joined error.
ErrorsIs(err, target) == ~err.isNil /\ \E i \in 1..Len(err.wraps) : err.wraps[i] = target

\* Backoff.Step: one step less, the duration grown by the factor; a duration
\* over the cap is cut to the cap and ends the steps.
Step(bo) ==
    IF bo.Steps < 1 THEN bo
    ELSE LET grown == bo.Duration * bo.Factor
         IN  IF bo.Factor # 0
             THEN IF bo.Cap > 0 /\ grown > bo.Cap
                  THEN [bo EXCEPT !.Steps = 0, !.Duration = bo.Cap]
                  ELSE [bo EXCEPT !.Steps = @ - 1, !.Duration = grown]
             ELSE [bo EXCEPT !.Steps = @ - 1]

\* The backoffs retry is called with: longBackoff has three steps and no cap.
Backoffs == [Steps : 0..MaxSteps, Duration : {1}, Factor : {1, 2}, Cap : {0, 2}]

InitRetry ==
    /\ UnifyIdle
    /\ ReadIdle
    /\ rpos = "loop"
    /\ backoff \in Backoffs
    /\ stepping = backoff
    /\ ctxDone = FALSE
    /\ errs = <<>>
    /\ inflight = 0
    /\ outcomes = <<>>
    /\ ret = NoError
    /\ OthersIdle

\* The error of the backoff is appended and the errors are joined.
GiveUp(err) ==
    /\ errs' = Append(errs, err)
    /\ ret' = ErrorsJoin(errs')
    /\ rpos' = "returned"

\* The context ends, at any time before retry returns.
ContextEnds ==
    /\ rpos \in {"loop", "f", "wait"}
    /\ ~ctxDone
    /\ ctxDone' = TRUE
    /\ UNCHANGED <<resolveVars, imageVars, buildVars, unifyVars, readVars, rpos, backoff, stepping, errs, inflight, ret, outcomes>>

\* Top of the loop, the context has ended: the backoff returns ctx.Err().
LoopCancelled ==
    /\ rpos = "loop"
    /\ stepping.Steps > 0
    /\ ctxDone
    /\ GiveUp(ContextError)
    /\ UNCHANGED <<resolveVars, imageVars, buildVars, unifyVars, readVars, backoff, stepping, ctxDone, inflight, outcomes>>

\* No step left: the backoff returns ErrWaitTimeout.
LoopTimeout ==
    /\ rpos = "loop"
    /\ stepping.Steps <= 0
    /\ GiveUp(ErrWaitTimeout)
    /\ UNCHANGED <<resolveVars, imageVars, buildVars, unifyVars, readVars, backoff, stepping, ctxDone, inflight, outcomes>>

\* The condition is run: f is called.
AttemptStart ==
    /\ rpos = "loop"
    /\ stepping.Steps > 0
    /\ ~ctxDone
    /\ inflight' = inflight + 1
    /\ rpos' = "f"
    /\ UNCHANGED <<resolveVars, imageVars, buildVars, unifyVars, readVars, backoff, stepping, ctxDone, errs, ret, outcomes>>

\* AttemptSucceeds, had retry joined the errors collected on success as well.
AttemptSucceedsJoining ==
    /\ rpos = "f"
    /\ inflight' = inflight - 1
    /\ errs' = Append(errs, "nil")
    /\ outcomes' = Append(outcomes, "nil")
    /\ ret' = ErrorsJoin(errs')
    /\ rpos' = "returned"
    /\ UNCHANGED <<resolveVars, imageVars, buildVars, unifyVars, readVars, backoff, stepping, ctxDone>>

\* f returns nil: the condition is met, the backoff returns nil and so does retry.
AttemptSucceeds ==
    /\ rpos = "f"
    /\ inflight' = inflight - 1
    /\ errs' = Append(errs, "nil")
    /\ outcomes' = Append(outcomes, "nil")
    /\ ret' = NoError
    /\ rpos' = "returned"
    /\ UNCHANGED <<resolveVars, imageVars, buildVars, unifyVars, readVars, backoff, stepping, ctxDone>>

\* AttemptFails, had retry kept the error of the latest attempt only.
AttemptFailsKeepingLast ==
    /\ rpos = "f"
    /\ stepping.Steps # 1
    /\ \E err \in Errors :
          /\ errs' = <<err>>
          /\ outcomes' = Append(outcomes, err)
    /\ inflight' = inflight - 1
    /\ stepping' = Step(stepping)
    /\ rpos' = "wait"
    /\ UNCHANGED <<resolveVars, imageVars, buildVars, unifyVars, readVars, backoff, ctxDone, ret>>

\* f returns an error and this is not the last step: the backoff steps and waits.
AttemptFails ==
    /\ rpos = "f"
    /\ stepping.Steps # 1
    /\ \E err \in Errors :
          /\ errs' = Append(errs, err)
          /\ outcomes' = Append(outcomes, err)
    /\ inflight' = inflight - 1
    /\ stepping' = Step(stepping)
    /\ rpos' = "wait"
    /\ UNCHANGED <<resolveVars, imageVars, buildVars, unifyVars, readVars, backoff, ctxDone, ret>>

\* f returns an error on the last step: the backoff returns ErrWaitTimeout.
AttemptFailsLast ==
    /\ rpos = "f"
    /\ stepping.Steps = 1
    /\ \E err \in Errors :
          /\ errs' = errs \o <<err, ErrWaitTimeout>>
          /\ outcomes' = Append(outcomes, err)
          /\ ret' = ErrorsJoin(errs')
    /\ inflight' = inflight - 1
    /\ rpos' = "returned"
    /\ UNCHANGED <<resolveVars, imageVars, buildVars, unifyVars, readVars, backoff, stepping, ctxDone>>

\* The wait is over.
WaitElapsed ==
    /\ rpos = "wait"
    /\ rpos' = "loop"
    /\ UNCHANGED <<resolveVars, imageVars, buildVars, unifyVars, readVars, backoff, stepping, ctxDone, errs, inflight, ret, outcomes>>

\* The context ends during the wait: the backoff returns ctx.Err().
WaitCancelled ==
    /\ rpos = "wait"
    /\ ctxDone
    /\ GiveUp(ContextError)
    /\ UNCHANGED <<resolveVars, imageVars, buildVars, unifyVars, readVars, backoff, stepping, ctxDone, inflight, outcomes>>

NextRetry ==
    \/ ContextEnds
    \/ LoopCancelled
    \/ LoopTimeout
    \/ AttemptStart
    \/ AttemptSucceeds
    \/ AttemptFails
    \/ AttemptFailsLast
    \/ WaitElapsed
    \/ WaitCancelled

SpecRetry == InitRetry /\ [][NextRetry]_vars

----------------------------------------------------------------------------
(* What the claims speak of *)

Entries == {pl[i] : i \in 1..Len(pl)}

DeclaredNames == {SplitName(originals[i]) : i \in 1..Len(originals)}

\* An entry of the form name=version, and its two parts.
IsPin(e) ==
    LET i == IndexAny(e)
    IN  i > 1 /\ i < Len(e) /\ e[i] = "="

PinName(e) == SubSeq(e, 1, IndexAny(e) - 1)

PinVersion(e) == SubSeq(e, IndexAny(e) + 1, Len(e))

\* Every architecture given to unify resolved name, and to this version.
SafeEverywhere(name, version) ==
    \A k \in 1..Len(given) :
        name \in given[k].packages /\ VersionOf(given[k].versions, name) = version

\* Every architecture resolved p, all to one version.
PinnedEverywhere(p) ==
    /\ Len(given) > 0
    /\ p \in given[1].packages
    /\ SafeEverywhere(p, VersionOf(given[1].versions, p))

ErrorsNaming(diags, name) ==
    {i \in 1..Len(diags) : diags[i].severity = "error" /\ diags[i].summary = ErrorSummary(name)}

ErrorSummaries(diags) ==
    {diags[i].summary : i \in {j \in 1..Len(diags) : diags[j].severity = "error"}}

----------------------------------------------------------------------------
(* C1: every name=version entry is safe on all architectures *)

\* C1, as claimed: every entry of the merged list that has the form name=version
\* names a package that every input architecture resolved, to exactly that version.
C1_EveryPinSafe ==
    pc = "done" =>
        \A i \in 1..Len(pl) :
            IsPin(pl[i]) => SafeEverywhere(PinName(pl[i]), PinVersion(pl[i]))

\* C1, amended: every entry that unify writes for a package of its unified set
\* (the entries after those of the missing set) has the form name=version and is
\* safe on all architectures.  A declared specifier of that form that is kept as
\* declared for an unlocked package (a=1) carries no such guarantee.
C1_LockedEntriesSafe ==
    pc = "done" =>
        \A i \in (Cardinality(missing) + 1)..Len(pl) :
            IsPin(pl[i]) /\ SafeEverywhere(PinName(pl[i]), PinVersion(pl[i]))

\* unify returned a locked entry after narrowing away another package of the
\* first architecture.
C1_Witness ==
    /\ pc = "done"
    /\ Len(given) >= 2
    /\ Len(pl) > Cardinality(missing)
    /\ acc.packages # given[1].packages
    /\ \E k \in 2..Len(given) : given[k].versions # given[1].versions

----------------------------------------------------------------------------
(* C2: the order of the architectures does not matter *)

Permuted(ins, perm) == [i \in 1..Len(ins) |-> ins[perm[i]]]

\* C2, as claimed: whenever unify returns for the inputs in the given order and in
\* a permuted order, the two merged lists have the same entries and the error
\* diagnostics name the same packages.
C2_OrderIndependent ==
    pc = "done" =>
        \A perm \in Permutations(1..Len(given)) :
            LET r == Unify(originals, Permuted(given, perm))
            IN  r.outcome = "done" =>
                    /\ {r.pl[i] : i \in 1..Len(r.pl)} = Entries
                    /\ ErrorSummaries(r.diagnostics) = ErrorSummaries(diagnostics)

----------------------------------------------------------------------------
(* C3: only a locked package rescues a declared name *)

\* C3, as claimed: a declared name that is neither locked nor left in the missing
\* set is in the narrowed provided set of a package of the final unified set.
C3_RescuedByLocked ==
    pc = "done" =>
        \A n \in originalPackages.packages :
            (n \notin acc.packages /\ n \notin missing) =>
                \E p \in acc.packages : n \in ProvidedOf(acc.provided, p)

----------------------------------------------------------------------------
(* C4: full agreement *)

\* Two provided maps with the same entries; a nil map has none.
SameProvided(m1, m2) == \A n \in Names : ProvidedOf(m1, n) = ProvidedOf(m2, n)

\* Every architecture has the versions and the provided sets of the first.
FullAgreement ==
    /\ Len(given) > 0
    /\ \A k \in 1..Len(given) :
          /\ given[k].versions = given[1].versions
          /\ SameProvided(given[k].provided, given[1].provided)

\* Every resolved package of the first architecture as name=version, sorted by name.
AllResolvedPinned ==
    LET names == SortedList(given[1].packages)
    IN  [i \in 1..Len(names) |-> names[i] \o <<"=">> \o given[1].versions[names[i]]]

\* C4, as claimed, for a declared list that is not empty: when all architectures
\* have the same versions and provided sets, unify returns every resolved package
\* as name=version, sorted, and no diagnostics.
C4_FullAgreementAsClaimed ==
    (pc \in {"done", "panic"} /\ FullAgreement /\ Len(originals) > 0) =>
        (pc = "done" /\ pl = AllResolvedPinned /\ diagnostics = <<>>)

\* A declared name that is a resolved package of the first architecture, or in
\* the provided set of one.
ResolvedOrProvided(n) ==
    \/ n \in given[1].packages
    \/ \E p \in given[1].packages : n \in ProvidedOf(given[1].provided, p)

\* C4, amended: when the declared list is not empty, every declared name is a
\* resolved package or provided by one, and all architectures have the same
\* versions and provided sets, unify returns every resolved package as
\* name=version, sorted, and no diagnostics.
C4_FullAgreement ==
    (/\ pc \in {"done", "panic"}
     /\ FullAgreement
     /\ Len(originals) > 0
     /\ \A n \in DeclaredNames : ResolvedOrProvided(n)) =>
        (pc = "done" /\ pl = AllResolvedPinned /\ diagnostics = <<>>)

\* Two agreeing architectures with two packages or more, one declared name being
\* provided only.
C4_Witness ==
    /\ pc = "done"
    /\ FullAgreement
    /\ Len(given) >= 2
    /\ Len(originals) > 0
    /\ \A n \in DeclaredNames : ResolvedOrProvided(n)
    /\ \E n \in DeclaredNames : n \notin given[1].packages
    /\ Cardinality(given[1].packages) >= 2
    /\ Len(pl) >= 2

----------------------------------------------------------------------------
(* C5: no panic on a non-empty inputs *)

\* The documented shape of a resolution: packages is the key set of versions and
\* the keys of provided are packages.
WellShaped(ins) ==
    \A k \in 1..Len(ins) :
        /\ ins[k].packages = DOMAIN ins[k].versions
        /\ DOMAIN ins[k].provided.kv \subseteq ins[k].packages

\* C5, as claimed: on a non-empty sequence of well-shaped resolutions unify does
\* not panic.
C5_NeverPanics ==
    (Len(given) > 0 /\ WellShaped(given)) => pc # "panic"

----------------------------------------------------------------------------
(* C6: a hard version conflict *)

\* The versions the architectures resolved name to.
ResolvedVersions(name) ==
    {given[k].versions[name] : k \in {j \in 1..Len(given) : name \in given[j].packages}}

ArchsResolving(name, version) ==
    {given[k].arch : k \in {j \in 1..Len(given) :
                              name \in given[j].packages /\ given[j].versions[name] = version}}

\* "<version> (<archs, sorted>)" for each version in lexicographic order, joined by ", ".
ConflictDetail(name) ==
    LET versions == SortedList(ResolvedVersions(name))
    IN  Join([i \in 1..Len(versions) |->
                 versions[i] \o <<" ", "(">>
                     \o Join(SortedList(ArchsResolving(name, versions[i])), <<",", " ">>)
                     \o <<")">>],
             <<",", " ">>)

\* name is declared without a constraint, every architecture resolved it, not all
\* to one version, and no package that is pinned on all architectures provides it
\* on any.
HardConflict(name) ==
    /\ name \in DeclaredNames
    /\ \A i \in 1..Len(originals) : SplitName(originals[i]) = name => originals[i] = name
    /\ \A k \in 1..Len(given) : name \in given[k].packages
    /\ Cardinality(ResolvedVersions(name)) > 1
    /\ \A p \in Names :
          PinnedEverywhere(p) => \A k \in 1..Len(given) : name \notin ProvidedOf(given[k].provided, p)

\* C6, as claimed: on a hard conflict the merged list has the bare name and the
\* diagnostics have exactly one error for it, whose detail is the clusters.
C6_HardConflict ==
    pc = "done" =>
        \A n \in Names :
            HardConflict(n) =>
                /\ n \in Entries
                /\ Cardinality(ErrorsNaming(diagnostics, n)) = 1
                /\ \A i \in ErrorsNaming(diagnostics, n) : diagnostics[i].detail = ConflictDetail(n)

----------------------------------------------------------------------------
(* C7: the declared constraint is kept *)

HasConstraint(orig) == SplitName(orig) # orig

\* The entry is the specifier as declared, and the name has neither a bare entry
\* nor a name=version entry made from a resolved version.
KeptAsDeclared(orig) ==
    LET n == SplitName(orig)
    IN  /\ orig \in Entries
        /\ n \notin Entries
        /\ \A k \in 1..Len(given) :
              n \in given[k].packages =>
                  (n \o <<"=">> \o given[k].versions[n] = orig
                       \/ n \o <<"=">> \o given[k].versions[n] \notin Entries)

\* C7, as claimed: a declared specifier with a constraint whose name is left in the
\* missing set is in the merged list as declared.
C7_ConstraintKept ==
    pc = "done" =>
        \A i \in 1..Len(originals) :
            (HasConstraint(originals[i]) /\ SplitName(originals[i]) \in missing) =>
                KeptAsDeclared(originals[i])

\* C7, amended: a declared specifier with a constraint whose name is left in the
\* missing set is in the merged list as declared when no later specifier of the
\* declared list has the same name (a later one overwrites its constraint).
C7_LastConstraintKept ==
    pc = "done" =>
        \A i \in 1..Len(originals) :
            (/\ HasConstraint(originals[i])
             /\ SplitName(originals[i]) \in missing
             /\ \A j \in (i + 1)..Len(originals) : SplitName(originals[j]) # SplitName(originals[i])) =>
                KeptAsDeclared(originals[i])

\* A declared a>1 that two architectures resolved to different versions is in the
\* merged list.
C7_Witness ==
    /\ pc = "done"
    /\ Len(given) = 2
    /\ a \in given[1].packages /\ a \in given[2].packages
    /\ given[1].versions[a] # given[2].versions[a]
    /\ a \in missing
    /\ <<"a", ">", "1">> \in Entries

----------------------------------------------------------------------------
(* C8: a declared name provided by a locked package *)

\* No architecture resolved name, and p, pinned on all architectures, provides
\* name on every one.
ProvidedThroughout(name, p) ==
    /\ Len(given) > 0
    /\ \A k \in 1..Len(given) : name \notin given[k].packages
    /\ PinnedEverywhere(p)
    /\ \A k \in 1..Len(given) : name \in ProvidedOf(given[k].provided, p)

\* C8: when a declared name is resolved by no architecture and a package pinned on
\* all architectures provides it on every one, unify returns, no error names the
\* declared name, no entry of the merged list is for it, and the provider is in the
\* merged list as provider=version.
C8_TransitiveRescue ==
    pc \in {"done", "panic"} =>
        \A n \in DeclaredNames, p \in Names :
            ProvidedThroughout(n, p) =>
                /\ pc = "done"
                /\ ErrorsNaming(diagnostics, n) = {}
                /\ \A i \in 1..Len(pl) : SplitName(pl[i]) # n
                /\ p \o <<"=">> \o given[1].versions[p] \in Entries

\* Two architectures whose provider provides a, and on one of them b as well, so
\* that the provided set was narrowed before the rescue.
C8_Witness ==
    /\ pc = "done"
    /\ Len(given) = 2
    /\ a \in DeclaredNames
    /\ ProvidedThroughout(a, c)
    /\ ProvidedOf(given[1].provided, c) # ProvidedOf(given[2].provided, c)
    /\ c \o <<"=">> \o given[1].versions[c] \in Entries

----------------------------------------------------------------------------
(* C9: packages of one architecture only *)

OnlyOn(k) == given[k].packages \ given[3 - k].packages

Warning(k) ==
    [severity |-> "warning",
     summary |-> WarningSummary(given[k].arch),
     detail |-> Sprint(SortedList(OnlyOn(k)))]

\* Two architectures, each with an undeclared package the other has not.
EachHasItsOwn ==
    /\ Len(given) = 2
    /\ Len(originals) > 0
    /\ OnlyOn(1) # {} /\ OnlyOn(2) # {}
    /\ (OnlyOn(1) \cup OnlyOn(2)) \cap DeclaredNames = {}

\* The merged list has none of the packages of one architecture only, there is no
\* error, and the diagnostics are one warning for each architecture, in the order
\* of the inputs, each with the packages of that architecture only.
OwnWarningsOnly ==
    /\ \A i \in 1..Len(pl) : SplitName(pl[i]) \notin OnlyOn(1) \cup OnlyOn(2)
    /\ ~HasError(diagnostics)
    /\ diagnostics = <<Warning(1), Warning(2)>>

OtherwiseAgreeing ==
    LET shared == given[1].packages \cap given[2].packages
    IN  /\ \A n \in shared :
              /\ given[1].versions[n] = given[2].versions[n]
              /\ ProvidedOf(given[1].provided, n) = ProvidedOf(given[2].provided, n)
        /\ \A n \in DeclaredNames :
              \/ n \in shared
              \/ \E p \in shared : n \in ProvidedOf(given[1].provided, p)

----------------------------------------------------------------------------
(* C10: the clusters of an error *)

\* C10, as claimed: the detail of the error for a name of the missing set has a
\* cluster for each version some architecture resolved the name to, and no other.
C10_ClustersOfResolvedVersions ==
    pc = "done" =>
        \A n \in missing :
            \A i \in ErrorsNaming(diagnostics, n) : diagnostics[i].detail = ConflictDetail(n)

----------------------------------------------------------------------------
(* C11: an empty declared list *)

\* C11: when the declared list is empty unify returns, whatever the inputs are
\* (an empty sequence included), the merged list and the diagnostics are empty,
\* and the inputs were not read: no accumulator was seeded from them and they
\* are as given.
C11_EmptyDeclared ==
    (pc \in {"done", "panic"} /\ Len(originals) = 0) =>
        /\ pc = "done"
        /\ pl = <<>>
        /\ diagnostics = <<>>
        /\ acc = NoAcc
        /\ originalPackages = NoOriginals
        /\ inputs = given

\* unify returned for an empty declared list and an empty sequence of inputs.
C11_Witness ==
    /\ pc = "done"
    /\ Len(originals) = 0
    /\ Len(given) = 0
    /\ pl = <<>>

----------------------------------------------------------------------------
(* C12: the two groups of the merged list *)

\* The declared specifiers of a name.
DeclaredAs(name) == {originals[i] : i \in {j \in 1..Len(originals) : SplitName(originals[j]) = name}}

\* C12: the merged list is the entries of the missing set, in the order of their
\* names, each a specifier the name was declared with (the bare name when that
\* has no constraint), followed by the entries of the unified set, in the order
\* of their names, each name=version with the version the first architecture
\* resolved.
C12_TwoGroups ==
    pc = "done" /\ Len(originals) > 0 =>
        LET m == SortedList(missing)
            l == SortedList(acc.packages)
        IN  /\ Len(pl) = Len(m) + Len(l)
            /\ missing \subseteq DeclaredNames
            /\ \A i \in 1..Len(m) :
                  /\ pl[i] \in DeclaredAs(m[i])
                  /\ SplitName(pl[i]) = m[i]
                  /\ (DeclaredAs(m[i]) = {m[i]} => pl[i] = m[i])
            /\ \A i \in 1..Len(l) :
                  pl[Len(m) + i] = l[i] \o <<"=">> \o VersionOf(given[1].versions, l[i])

\* A missing entry before a locked entry that sorts before it: c, then a=1.
C12_Witness ==
    /\ pc = "done"
    /\ Len(given) = 2
    /\ Len(pl) >= 2
    /\ missing # {}
    /\ acc.packages # {}
    /\ \E i, j \in 1..Len(pl) : i < j /\ Less(pl[j], pl[i])

----------------------------------------------------------------------------
(* C13: Read and the diagnostics of unify *)

Severities(diags) == {diags[i].severity : i \in 1..Len(diags)}

\* C13: when Read has returned after a call of unify: if unify returned an
\* error, its diagnostics are in the response, the packages of the configuration
\* are still the list given to unify and no state is written; if it returned no
\* error, the merged list is the package list of the configuration, the state is
\* written with it, and the warnings are in the response.
C13_ErrorsBlock ==
    (stage = "returned" /\ pc = "done") =>
        /\ resp.diagnostics = diagnostics
        /\ IF HasError(diagnostics)
           THEN /\ ic.packages = originals
                /\ resp.state = NoState
           ELSE /\ ic.packages = pl
                /\ resp.state.written
                /\ resp.state.config.packages = pl
                /\ resp.state.id = data.config_contents

\* Read wrote a state with a merged list other than the declared list, and the
\* response has warnings only.
C13_Witness ==
    /\ stage = "returned"
    /\ pc = "done"
    /\ Severities(diagnostics) = {"warning"}
    /\ resp.state.written
    /\ pl # originals
    /\ Len(pl) >= 1
    /\ Len(given) >= 2

----------------------------------------------------------------------------
(* C16: the precedence of the annotations *)

\* The annotations of the configuration are those of the three sources, the
\* YAML configuration first, then the data source, then the provider.
PrecedenceHolds(annotations) ==
    LET yaml == data.config_contents.annotations
        ds == data.default_annotations
        pr == popts.anns
    IN  /\ DOMAIN annotations = (DOMAIN yaml) \cup (DOMAIN ds) \cup (DOMAIN pr)
        /\ \A k \in DOMAIN annotations :
              annotations[k] = IF k \in DOMAIN yaml THEN yaml[k]
                               ELSE IF k \in DOMAIN ds THEN ds[k]
                               ELSE pr[k]

\* C16: once the configuration is prepared its annotations, and those of the
\* state written, follow the precedence, and no step of Read changes the
\* annotations of the data source or of the provider (combineMaps modifies
\* neither of its arguments).
C16_AnnotationPrecedence ==
    /\ [](stage \in {"prepared", "resolved", "returned"} /\ data.decodes /\ data.config_contents.valid =>
              /\ PrecedenceHolds(ic.annotations)
              /\ (resp.state.written => PrecedenceHolds(resp.state.config.annotations)))
    /\ [][data'.default_annotations = data.default_annotations /\ popts'.anns = popts.anns]_vars

\* A key of all three sources, one of the data source and the provider, and one
\* of the provider only.
C16_Witness ==
    /\ stage = "returned"
    /\ resp.state.written
    /\ DOMAIN data.config_contents.annotations = {"x"}
    /\ DOMAIN data.default_annotations = {"x", "y"}
    /\ DOMAIN popts.anns = {"x", "y", "z"}
    /\ resp.state.config.annotations = [k \in {"x", "y", "z"} |->
                                           IF k = "x" THEN "yaml" ELSE IF k = "y" THEN "data" ELSE "provider"]

----------------------------------------------------------------------------
(* C17: the architectures *)

\* The canonical form of an architecture name.
Canonical(s) ==
    IF s = x86_64 THEN amd64
    ELSE IF s = aarch64 THEN arm64
    ELSE IF s = x86 THEN arch386
    ELSE s

ArchNames == {amd64, arm64, arch386, s390x, x86_64, aarch64, x86}

\* The architectures Read is to use.
ExpectedArchs ==
    LET configured == data.config_contents.archs
        defaults == popts.archs
    IN  IF Len(configured) > 0 THEN [i \in 1..Len(configured) |-> Canonical(configured[i])]
        ELSE IF defaults = <<all>> THEN AllArchs
        ELSE IF Len(defaults) > 0 THEN SortedList({Canonical(defaults[i]) : i \in 1..Len(defaults)})
        ELSE AllArchs

\* C17: once the configuration is prepared its architectures are those of the
\* configuration when it lists any, else the provider's defaults when any are
\* set, else all architectures; each is in canonical form; the state written has
\* the same; and normalizing a name twice is normalizing it once.
C17_ArchSelection ==
    (stage \in {"prepared", "resolved", "returned"} /\ data.decodes /\ data.config_contents.valid) =>
        /\ ic.archs = ExpectedArchs
        /\ \A i \in 1..Len(ic.archs) : ic.archs[i] \in {amd64, arm64, arch386, s390x}
        /\ (resp.state.written => resp.state.config.archs = ExpectedArchs)
        /\ \A n \in ArchNames : Normalize(n) = Canonical(n) /\ Normalize(Normalize(n)) = Normalize(n)

\* The configuration lists x86_64, the provider has other defaults, and the state
\* written has amd64 alone.
C17_Witness ==
    /\ stage = "returned"
    /\ resp.state.written
    /\ data.config_contents.archs = <<x86_64>>
    /\ Len(popts.archs) = 3
    /\ resp.state.config.archs = <<amd64>>

----------------------------------------------------------------------------
(* C14: the attempts of retry *)

\* The calls of f so far, the one in progress included.
Calls == Len(outcomes) + inflight

\* C14: f is never in progress twice; f is not called again after a call of it
\* returned nil; f is called at most backoff.Steps times; and once retry has
\* returned, it returned nil exactly when a call of f returned nil, whatever
\* errors the calls before it returned.
C14_Attempts ==
    /\ inflight \in {0, 1}
    /\ Calls <= backoff.Steps
    /\ \A i \in 1..Len(outcomes) :
          outcomes[i] = "nil" => (i = Len(outcomes) /\ inflight = 0 /\ rpos = "returned")
    /\ (rpos = "returned" => (ret = NoError <=> \E i \in 1..Len(outcomes) : outcomes[i] = "nil"))

\* retry returned nil after two failed attempts, on the last step.
C14_Witness ==
    /\ rpos = "returned"
    /\ backoff.Steps = 3
    /\ Len(outcomes) = 3
    /\ outcomes[1] \in Errors /\ outcomes[2] \in Errors /\ outcomes[3] = "nil"
    /\ outcomes[1] # outcomes[2]
    /\ ret = NoError

----------------------------------------------------------------------------
(* C15: the error of retry *)

\* C15: when retry has returned and no call of f returned nil, the error returned
\* is not nil, errors.Is holds of it for the error of every call of f that was
\* made, and for the timeout error of the backoff or the error of the context.
C15_AllErrorsWrapped ==
    (rpos = "returned" /\ \A i \in 1..Len(outcomes) : outcomes[i] # "nil") =>
        /\ ~ret.isNil
        /\ \A i \in 1..Len(outcomes) : ErrorsIs(ret, outcomes[i])
        /\ (ErrorsIs(ret, ErrWaitTimeout) \/ ErrorsIs(ret, ContextError))
        /\ (ErrorsIs(ret, ContextError) => ctxDone)

\* Three attempts failed, with two different errors, and the backoff timed out.
C15_Witness ==
    /\ rpos = "returned"
    /\ Len(outcomes) = 3
    /\ \A i \in 1..3 : outcomes[i] \in Errors
    /\ outcomes[1] # outcomes[3]
    /\ ErrorsIs(ret, ErrWaitTimeout)
    /\ Len(ret.wraps) = 4

----------------------------------------------------------------------------
(* C18: unify and its arguments *)

\* C18, as claimed: when unify has returned, every input resolution is as it was
\* given, and a second call on the same inputs returns what the first returned.
C18_ArgumentsUnchanged ==
    pc = "done" =>
        /\ inputs = given
        /\ LET again == Unify(originals, inputs)
           IN  again.outcome = "done" /\ again.pl = pl /\ again.diagnostics = diagnostics

----------------------------------------------------------------------------
(* C19: the accumulator shrinks and stays consistent *)

\* C19, as claimed: folding one architecture leaves the packages of the
\* accumulator, the keys of its versions and the keys of its provided map within
\* what they were, and a name taken out of the packages is in neither map after.
C19_AccumulatorShrinks ==
    [][(pc = "fold" /\ pc' = "fold" /\ idx' = idx + 1) =>
          /\ acc'.packages \subseteq acc.packages
          /\ DOMAIN acc'.versions \subseteq DOMAIN acc.versions
          /\ DOMAIN acc'.provided.kv \subseteq DOMAIN acc.provided.kv
          /\ \A n \in acc.packages \ acc'.packages :
                n \notin DOMAIN acc'.versions /\ n \notin DOMAIN acc'.provided.kv]_vars

----------------------------------------------------------------------------
(* C20: the narrowing of the provided sets *)

\* What p provides on every architecture given.
ProvidedEverywhere(p) ==
    {n \in Names : \A k \in 1..Len(given) : n \in ProvidedOf(given[k].provided, p)}

\* p provides n on some architecture and not on every one.
ProvidedPartly(n, p) ==
    /\ \E k \in 1..Len(given) : n \in ProvidedOf(given[k].provided, p)
    /\ \E k \in 1..Len(given) : n \notin ProvidedOf(given[k].provided, p)

\* C20: when unify has returned, the provided set the accumulator has for a
\* package of the unified set is what the package provides on every
\* architecture; and a declared name that no architecture resolved to one
\* version and that only such a package provides, on some architectures and not
\* on all, is not rescued: it is left in the missing set and an error names it.
C20_ProvidesNarrowed ==
    pc = "done" /\ Len(originals) > 0 =>
        /\ \A p \in acc.packages : ProvidedOf(acc.provided, p) = ProvidedEverywhere(p)
        /\ \A n \in DeclaredNames, p \in acc.packages :
              (/\ ~PinnedEverywhere(n)
               /\ ProvidedPartly(n, p)
               /\ \A q \in Names \ {p} : \A k \in 1..Len(given) : n \notin ProvidedOf(given[k].provided, q)) =>
                  /\ n \in missing
                  /\ Cardinality(ErrorsNaming(diagnostics, n)) = 1

\* c is pinned and provides the declared a on the first architecture only: its
\* provided set was narrowed to nothing and a was not rescued.
C20_Witness ==
    /\ pc = "done"
    /\ Len(given) = 2
    /\ a \in DeclaredNames
    /\ c \in acc.packages
    /\ a \in ProvidedOf(given[1].provided, c)
    /\ c \in given[2].packages
    /\ ~given[2].provided.isNil
    /\ a \notin ProvidedOf(given[2].provided, c)
    /\ ProvidedOf(acc.provided, c) = {}
    /\ a \in missing

----------------------------------------------------------------------------
(* C21: every conflict is reported in one call *)

\* The positions of the errors and of the warnings in the diagnostics.
ErrorPositions == {i \in 1..Len(diagnostics) : diagnostics[i].severity = "error"}

WarningPositions == {i \in 1..Len(diagnostics) : diagnostics[i].severity = "warning"}

\* C21: when unify has returned, the errors are the first diagnostics, one for
\* each name of the missing set, in the order of the names; the merged list is
\* returned all the same, with an entry for every name of the missing set and
\* for every package of the unified set; and every error comes before every
\* warning.
C21_AllConflictsReported ==
    pc = "done" =>
        LET names == SortedList(missing)
        IN  /\ ErrorPositions = 1..Len(names)
            /\ \A i \in 1..Len(names) : diagnostics[i].summary = ErrorSummary(names[i])
            /\ \A i \in ErrorPositions, j \in WarningPositions : i < j
            /\ Len(pl) = Len(names) + Cardinality(acc.packages)
            /\ \A n \in missing \cup acc.packages : \E i \in 1..Len(pl) : SplitName(pl[i]) = n

\* Two declared names are left unlocked and each of two architectures has a
\* warning.
C21_Witness ==
    /\ pc = "done"
    /\ Cardinality(missing) = 2
    /\ Cardinality(ErrorPositions) = 2
    /\ Cardinality(WarningPositions) = 2
    /\ Len(pl) = 2

----------------------------------------------------------------------------
(* C22: packages that were not declared *)

\* Some architectures resolved name to different versions.
ResolvedDifferently(name) == Cardinality(ResolvedVersions(name)) > 1

\* The warnings for the architecture of given[k] that name the package.
WarningsNaming(k, name) ==
    {i \in WarningPositions :
        /\ diagnostics[i].summary = WarningSummary(given[k].arch)
        /\ \E S \in SUBSET Names : name \in S /\ diagnostics[i].detail = Sprint(SortedList(S))}

\* The warnings for the architecture of given[k].
WarningsFor(k) == {i \in WarningPositions : diagnostics[i].summary = WarningSummary(given[k].arch)}

----------------------------------------------------------------------------
(* C23: the split of a specifier *)

\* The positions of the characters = < > ~ in s.
OperatorPositions(s) == {i \in 1..Len(s) : s[i] \in {"=", "<", ">", "~"}}

\* The first of them (s has one).
FirstOperator(s) == CHOOSE i \in OperatorPositions(s) : \A j \in OperatorPositions(s) : i <= j

\* The text before the first of the four characters, or all of s.
TextBefore(s) == IF OperatorPositions(s) = {} THEN s ELSE SubSeq(s, 1, FirstOperator(s) - 1)

\* The text from the first of the four characters to the end, or nothing.
TextFrom(s) == IF OperatorPositions(s) = {} THEN <<>> ELSE SubSeq(s, FirstOperator(s), Len(s))

\* C23: once the one declared specifier is parsed, the parsed name is the text
\* before the first of = < > ~, the parsed constraint is the text from that
\* character to the end, the constraint is empty when none of the four
\* characters occurs, and name followed by constraint is the specifier (also
\* with an empty name); the specifier nobody resolved is returned as declared.
C23_ParserSplit ==
    (Len(originals) = 1 /\ pc # "call") =>
        LET orig == originals[1]
            name == TextBefore(orig)
        IN  /\ originalPackages.packages = {name}
            /\ DOMAIN originalPackages.versions = {name}
            /\ originalPackages.versions[name] = TextFrom(orig)
            /\ (OperatorPositions(orig) = {} => originalPackages.versions[name] = <<>>)
            /\ \A n \in originalPackages.packages : n \o originalPackages.versions[n] = orig
            /\ (pc = "done" => pl = <<orig>>)

\* A specifier that starts with an operator was parsed to the empty name and
\* returned as declared.
C23_Witness ==
    /\ pc = "done"
    /\ originals = << <<">", "=", "1">> >>
    /\ originalPackages.packages = {<<>>}
    /\ originalPackages.versions[<<>>] = <<">", "=", "1">>
    /\ pl = originals

----------------------------------------------------------------------------
(* C24, C25: the tasks of resolvePackageList *)

\* The tasks that returned an error.
FailedTasks == {i \in 1..Len(tasks) : tasks[i] = "failed"}

\* unify has been called.
UnifyCalled == pc # "call" \/ given # <<>> \/ originals # <<>>

\* C24: when resolvePackageList has returned and the task of some architecture
\* failed, the diagnostics are exactly one error 'error computing package locks',
\* the package list is nil, and unify was not called.
C24_TaskFailureAborts ==
    (rstage = "returned" /\ FailedTasks # {}) =>
        /\ Len(diagnostics) = 1
        /\ diagnostics[1].severity = "error"
        /\ diagnostics[1].summary = <<"error computing package locks">>
        /\ pl = <<>>
        /\ ~UnifyCalled

\* One of two tasks failed and the other stored a resolution with packages;
\* resolvePackageList returned the one error.
C24_Witness ==
    /\ rstage = "returned"
    /\ Len(tasks) = 2
    /\ tasks[1] = "done" /\ tasks[2] = "failed"
    /\ resolvedArchs[1].packages # {}
    /\ Len(diagnostics) = 1
    /\ ~UnifyCalled

\* The resolution of the i-th configured architecture.
ResolutionOf(i) == Resolved(ic.archs[i], world[i].answer.pkgs)

\* Each task writes only its own slot: a slot changes only in the step in which
\* its own task stores its resolution.
OwnSlotOnly ==
    [][(rstage \in {"spawn", "wait"}) =>
          \A j \in 1..Len(resolvedArchs) :
              resolvedArchs'[j] # resolvedArchs[j] => (tasks[j] = "built" /\ tasks'[j] = "done")]_vars

\* unify is called only in a step before which every task had returned.
UnifyAfterAll == [][(~UnifyCalled /\ UnifyCalled') => AllReturned]_vars

\* The sequence given to unify has, at position i, the resolution of the i-th
\* configured architecture.
InConfiguredOrder ==
    (rstage = "returned" /\ UnifyCalled) =>
        /\ Len(given) = Len(ic.archs)
        /\ \A i \in 1..Len(given) : given[i] = ResolutionOf(i)

\* The error of the failed task at the lowest position: what eg.Wait returns
\* when the tasks return in the order of their positions.
ErrOf(i) == IF world[i].image THEN PackageListErr(ic.archs[i]) ELSE ImageErr(ic.archs[i])

FirstFailedByPosition == CHOOSE i \in FailedTasks : \A j \in FailedTasks : i <= j

\* What resolvePackageList returns when its tasks return in the order of their
\* positions.
ResultInPositionOrder ==
    IF FailedTasks # {}
    THEN [pl |-> <<>>, diagnostics |-> <<LocksDiagnostic(ErrOf(FirstFailedByPosition))>>]
    ELSE LET r == Unify(ic.packages, [i \in 1..Len(ic.archs) |-> ResolutionOf(i)])
         IN  [pl |-> r.pl, diagnostics |-> r.diagnostics]

\* C25 as claimed: under every interleaving each task writes only its own slot,
\* unify is called only after all tasks have returned, on the resolutions in the
\* order of the configured architectures, and what resolvePackageList returns is
\* what it returns when the tasks return in the order of their positions.
C25_OrderIndependent ==
    /\ OwnSlotOnly
    /\ UnifyAfterAll
    /\ [](InConfiguredOrder)
    /\ []((rstage = "returned" /\ tasks # <<>>) =>
            [pl |-> pl, diagnostics |-> diagnostics] = ResultInPositionOrder)

\* C25, amended: under every interleaving each task writes only its own slot,
\* unify is called only after all tasks have returned, on the resolutions in the
\* order of the configured architectures; when no task fails the result is the
\* one of unify on those resolutions, whatever the order in which the tasks
\* returned, and when tasks fail the detail of the one error is the error of one
\* of the failed tasks (the first to return).
C25_OrderIndependentOnSuccess ==
    /\ OwnSlotOnly
    /\ UnifyAfterAll
    /\ [](InConfiguredOrder)
    /\ []((rstage = "returned" /\ tasks # <<>>) =>
            IF FailedTasks = {}
            THEN /\ UnifyCalled
                 /\ [pl |-> pl, diagnostics |-> diagnostics] = ResultInPositionOrder
            ELSE /\ diagnostics = <<LocksDiagnostic(egErr)>>
                 /\ egErr \in {ErrOf(i) : i \in FailedTasks}
                 /\ (Cardinality(FailedTasks) = 1 => egErr = ErrOf(FirstFailedByPosition)))

\* Two tasks answered with different packages, unify was called on the two
\* resolutions in the configured order and returned a list and a diagnostic.
C25_Witness ==
    /\ rstage = "returned"
    /\ Len(tasks) = 2
    /\ FailedTasks = {}
    /\ UnifyCalled
    /\ given[1] = ResolutionOf(1) /\ given[2] = ResolutionOf(2)
    /\ given[1].packages # given[2].packages
    /\ given[1].packages # {} /\ given[2].packages # {}
    /\ pl # <<>>
    /\ diagnostics # <<>>

----------------------------------------------------------------------------
(* C26: the extra packages against the image list *)

\* The entries of the list fromImageData returned.
Built == Elements(iret.packages)

\* The extra packages that fromImageData added: in the result, not in the image list.
Added == (Built \cap Elements(iarg.popts.packages)) \ Elements(iarg.ic.packages)

\* C26: once fromImageData has returned, no extra package has been added whose
\* bare name is the bare name of an entry of the image list, no package name is
\* in two entries of the resulting list, and every entry of the image list is
\* in the resulting list.
C26_DedupByName ==
    ipos = "returned" =>
        /\ \A e \in Added : \A pkg \in Elements(iarg.ic.packages) : SplitName(e) # SplitName(pkg)
        /\ \A i, j \in 1..Len(iret.packages) :
              i # j => SplitName(iret.packages[i]) # SplitName(iret.packages[j])
        /\ Elements(iarg.ic.packages) \subseteq Built

----------------------------------------------------------------------------
(* C27: id and image_ref of the build resource *)

Log == {written[i] : i \in 1..Len(written)}

\* The reference of the build of an operation.
Reference(e) == Digest(ValueString(e.data.Repo), e.built.hash)

\* C27: every state that Create, Read or Update wrote has id = image_ref;
\* Create and Update set both to repo@digest of their build; Read keeps both as
\* the rebuilt reference when that is the stored image_ref and sets both to the
\* empty string when it is not; an operation whose build failed or whose repo
\* does not parse wrote no state, and Delete wrote none.
C27_IdIsImageRef ==
    \A e \in Log :
        /\ (e.op \in {"Create", "Read", "Update"} /\ e.wrote) =>
              /\ e.state.Id = e.state.ImageRef
              /\ ~e.state.Id.null
              /\ e.built.called /\ ~e.built.err /\ ValidRepository(ValueString(e.data.Repo))
        /\ (e.op \in {"Create", "Update"} /\ e.wrote) => ValueString(e.state.Id) = Reference(e)
        /\ (e.op = "Read" /\ e.wrote) =>
              ValueString(e.state.Id) =
                  (IF Reference(e) = ValueString(e.data.ImageRef) THEN Reference(e) ELSE <<>>)
        /\ (e.op \in {"Create", "Read", "Update"}
              /\ (e.built.err \/ ~ValidRepository(ValueString(e.data.Repo)))) => ~e.wrote
        /\ e.op = "Delete" => ~e.wrote

\* Create wrote a reference, a Read rebuilt another one and emptied id and
\* image_ref, and an Update set both again.
C27_Witness ==
    /\ Len(written) = 3
    /\ written[1].op = "Create" /\ written[1].wrote
    /\ written[2].op = "Read" /\ written[2].wrote /\ written[2].state.Id = StringValue(<<>>)
    /\ written[3].op = "Update" /\ written[3].wrote
    /\ bstate.Id = bstate.ImageRef
    /\ ValueString(bstate.Id) # <<>>

----------------------------------------------------------------------------
(* C28: no declared package vanishes *)

\* The merged list has the entry name=version of a version some architecture
\* resolved name to.
HasPinnedEntry(name) == \E v \in ResolvedVersions(name) : name \o <<"=">> \o v \in Entries

\* The merged list has an entry for name and an error names it.
HasUnpinnedEntry(name) ==
    /\ \E e \in Entries : SplitName(e) = name
    /\ ErrorsNaming(diagnostics, name) # {}

\* A package with a pinned entry provides name on every architecture.
HasPinnedProvider(name) ==
    \E p \in Names :
        /\ HasPinnedEntry(p)
        /\ \A k \in 1..Len(given) : name \in ProvidedOf(given[k].provided, p)

\* C28: when unify has returned, every declared name has a pinned entry in the
\* merged list, or an unpinned entry with an error naming it, or a package pinned
\* in the merged list that provides it on every architecture.
C28_NoSilentVanish ==
    (pc = "done" /\ Len(originals) > 0) =>
        \A n \in DeclaredNames : HasPinnedEntry(n) \/ HasUnpinnedEntry(n) \/ HasPinnedProvider(n)

----------------------------------------------------------------------------
(* C29: unpinned entries and errors *)

\* The names of the entries that are not a pin made by unify: those of the
\* entries before the entries of the unified set.
UnpinnedNames == {SplitName(pl[i]) : i \in 1..(Len(pl) - Cardinality(acc.packages))}

\* C29: when unify has returned, a name has an unpinned entry in the merged
\* list exactly when the diagnostics have one error naming it (and never more
\* than one), every such name is declared, and no name is in two entries.
C29_UnpinnedIffError ==
    pc = "done" =>
        /\ \A n \in Names :
              /\ n \in UnpinnedNames <=> Cardinality(ErrorsNaming(diagnostics, n)) = 1
              /\ Cardinality(ErrorsNaming(diagnostics, n)) <= 1
        /\ Cardinality(ErrorPositions) = Cardinality(UnpinnedNames)
        /\ UnpinnedNames \subseteq DeclaredNames
        /\ \A i \in 1..Len(pl) : SplitName(pl[i]) \in UnpinnedNames \/ SplitName(pl[i]) \in acc.packages
        /\ \A i, j \in 1..Len(pl) : i # j => SplitName(pl[i]) # SplitName(pl[j])

\* One declared name has an unpinned entry and the one error, another declared
\* name is rescued by a pinned package and has neither.
C29_Witness ==
    /\ pc = "done"
    /\ DeclaredNames = {a, b}
    /\ UnpinnedNames = {b}
    /\ Cardinality(ErrorsNaming(diagnostics, b)) = 1
    /\ ErrorsNaming(diagnostics, a) = {}
    /\ a \notin acc.packages
    /\ Len(pl) = 2

----------------------------------------------------------------------------
(* C30: pinning is maximal *)

====
